---- MODULE Spec2Model ----
(***************************************************************************)
(* Model of RedCAM's synchronisation core:                                 *)
(*   - redcam/infra/garmin/fit_parser.py   (FitParser track queries)       *)
(*   - redcam/core/usecases/sync_videos.py (SyncVideosUseCase)             *)
(*   - redcam/core/models/sync_models.py, redcam/domain/gps_types.py       *)
(*   - redcam/infra/video/os_video_catalog.py, universal_adapter.py,       *)
(*     gopro_metadata_adapter.py, redcam/services/sync_controller.py       *)
(*   - redcam/infra/gopro/gopro_gps_extractor.py (GpmfParser)              *)
(*                                                                         *)
(* Conventions.                                                            *)
(*  * An instant is an integer number of seconds on the UTC time line.     *)
(*    Every datetime the program handles is timezone-aware UTC (FIT        *)
(*    timestamps, ffprobe creation times, file mtimes), so the wall-clock  *)
(*    fields of a datetime are its instant.                                *)
(*  * Optional[T] is a sequence of length <= 1: None is << >>, a present   *)
(*    value v is << v >>.                                                  *)
(*  * A float coordinate is an exact rational [num, den] in lowest terms   *)
(*    (unit: 1/100 degree, metre, m/s); float rounding is abstracted.      *)
(***************************************************************************)
EXTENDS Integers, Sequences, FiniteSets, TLC

VARIABLES
    fit_parser,      \* SyncController.fit_parser / SyncVideosUseCase.track_sync: Optional[FitParser]
    local_timezone,  \* SyncVideosUseCase.local_timezone
    pc,              \* "ready" before the call, "done" after it
    op,              \* name of the operation that was applied
    arg,             \* the inputs of that operation
    ret,             \* what the operation returned (or raised)
    calls,           \* the port operations the call invoked
    video_folder,    \* the selected folder, as os.listdir sees it (None: no such folder)
    run,             \* the frame of SyncVideosUseCase.execute: its arguments, locals and position
    events,          \* the ProgressEvents the reporter has received, in order
    video_metadata,  \* SyncController._video_metadata: the universal adapter and its two caches
    lookups,         \* the calls the adapter has served, in order, with what each returned
    gpmf,            \* the frame of GpmfParser.parse: the data, the parser's fields, the offset
    window           \* MainWindow: its controller's paths and results, its workers, its widgets

\* the variables of a batch run
execVars == <<video_folder, run, events>>

\* the variables of the metadata adapter
adapterVars == <<video_metadata, lookups>>

vars == <<fit_parser, local_timezone, pc, op, arg, ret, calls, execVars, adapterVars, gpmf,
          window>>

----------------------------------------------------------------------------
(* Bounds of the model *)

MaxPoints == 5        \* longest track explored by the FitParser checks
TargetMargin == 1     \* targets extend this many half-hours around the track
MaxSyncPoints == 2    \* longest track explored by the use-case checks
MaxFiles == 2         \* most files in the video folder
MaxLookups == 4       \* most calls served by the metadata adapter
MaxItems == 4         \* most items in a GPMF stream
MaxRecords == 3       \* most records in a FIT file
MaxWorkers == 3       \* most ProcessingWorkers started by one window
MaxScaledItems == 4   \* most items in a GPMF stream with scales and GPS9 groups
MaxCutItems == 2      \* most pieces in a GPMF stream cut short

(* Program constants *)

Hour == 3600
DefaultToleranceSeconds == 300
MtimeWindowSeconds == 7200

HalfHour == Hour \div 2

----------------------------------------------------------------------------
(* Optional values *)

None == << >>
Some(v) == << v >>
IsNone(o) == Len(o) = 0
IsSome(o) == Len(o) = 1
Val(o) == o[1]

Abs(x) == IF x < 0 THEN -x ELSE x

(* Rationals in lowest terms with a positive denominator *)

RECURSIVE GCD(_, _)
GCD(a, b) == IF b = 0 THEN a ELSE GCD(b, a % b)

Rat(n, d) ==
    LET g == GCD(Abs(n), Abs(d))
        s == IF d < 0 THEN -1 ELSE 1
    IN  [num |-> s * (n \div g), den |-> s * (d \div g)]

Whole(n) == [num |-> n, den |-> 1]

----------------------------------------------------------------------------
(* GPSPoint and GPSTrack (domain/gps_types.py) *)

GPSPoint(lat, lon, elev, ts, spd) ==
    [latitude |-> lat, longitude |-> lon, elevation |-> elev,
     timestamp |-> ts, speed |-> spd]

is_valid(p) ==
    /\ (p.latitude.num # 0 \/ p.longitude.num # 0)
    /\ -9000 * p.latitude.den <= p.latitude.num
    /\ p.latitude.num <= 9000 * p.latitude.den
    /\ -18000 * p.longitude.den <= p.longitude.num
    /\ p.longitude.num <= 18000 * p.longitude.den

GPSTrack(points) ==
    [points |-> points,
     start_time |-> points[1].timestamp,
     end_time |-> points[Len(points)].timestamp]

is_empty(tr) == Len(tr.points) = 0

----------------------------------------------------------------------------
(* FitParser (infra/garmin/fit_parser.py) *)

Lerp(v1, v2, elapsed_seconds, total_seconds) ==
    Rat(v1.num * v2.den * total_seconds
          + (v2.num * v1.den - v1.num * v2.den) * elapsed_seconds,
        v1.den * v2.den * total_seconds)

Interpolate_FromP2(p1, p2, target_time) ==
    IF IsNone(p1.timestamp) \/ IsNone(p2.timestamp) THEN p1
    ELSE LET total_seconds == Val(p2.timestamp) - Val(p1.timestamp)
             elapsed_seconds == Val(p2.timestamp) - target_time
         IN  IF total_seconds = 0 THEN p1
             ELSE GPSPoint(Lerp(p1.latitude, p2.latitude, elapsed_seconds, total_seconds),
                           Lerp(p1.longitude, p2.longitude, elapsed_seconds, total_seconds),
                           Lerp(p1.elevation, p2.elevation, elapsed_seconds, total_seconds),
                           Some(target_time),
                           Lerp(p1.speed, p2.speed, elapsed_seconds, total_seconds))

Interpolate(p1, p2, target_time) ==
    IF IsNone(p1.timestamp) \/ IsNone(p2.timestamp) THEN p1
    ELSE LET total_seconds == Val(p2.timestamp) - Val(p1.timestamp)
             elapsed_seconds == target_time - Val(p1.timestamp)
         IN  IF total_seconds = 0 THEN p1
             ELSE GPSPoint(Lerp(p1.latitude, p2.latitude, elapsed_seconds, total_seconds),
                           Lerp(p1.longitude, p2.longitude, elapsed_seconds, total_seconds),
                           Lerp(p1.elevation, p2.elevation, elapsed_seconds, total_seconds),
                           Some(target_time),
                           Lerp(p1.speed, p2.speed, elapsed_seconds, total_seconds))

RECURSIVE ScanPairs_LastMatch(_, _, _)
ScanPairs_LastMatch(points, target_time, i) ==
    IF i > Len(points) - 1 THEN None
    ELSE LET p1 == points[i]
             p2 == points[i + 1]
             later == ScanPairs_LastMatch(points, target_time, i + 1)
         IN  IF IsSome(later) THEN later
             ELSE IF IsNone(p1.timestamp) \/ IsNone(p2.timestamp) THEN None
             ELSE IF Val(p1.timestamp) <= target_time /\ target_time <= Val(p2.timestamp)
                  THEN Some(Interpolate(p1, p2, target_time))
                  ELSE None

\* the loop of _find_position_exact, from pair (points[i], points[i+1]) on
RECURSIVE ScanPairs(_, _, _)
ScanPairs(points, target_time, i) ==
    IF i > Len(points) - 1 THEN None
    ELSE LET p1 == points[i]
             p2 == points[i + 1]
         IN  IF IsNone(p1.timestamp) \/ IsNone(p2.timestamp)
             THEN ScanPairs(points, target_time, i + 1)
             ELSE IF Val(p1.timestamp) <= target_time /\ target_time <= Val(p2.timestamp)
                  THEN Some(Interpolate(p1, p2, target_time))
                  ELSE ScanPairs(points, target_time, i + 1)

FindPositionExact(points, target_time) ==
    IF IsSome(points[1].timestamp) /\ target_time < Val(points[1].timestamp)
    THEN None
    ELSE IF IsSome(points[Len(points)].timestamp)
            /\ target_time > Val(points[Len(points)].timestamp)
    THEN None
    ELSE ScanPairs(points, target_time, 1)

\* the loop of _find_nearest_point: min_diff is None for float('inf')
RECURSIVE NearestScan_LastOnTies(_, _, _, _, _)
NearestScan_LastOnTies(points, target_time, i, nearest, min_diff) ==
    IF i > Len(points) THEN nearest
    ELSE IF IsNone(points[i].timestamp)
    THEN NearestScan_LastOnTies(points, target_time, i + 1, nearest, min_diff)
    ELSE LET diff == Abs(Val(points[i].timestamp) - target_time)
         IN  IF IsNone(min_diff) \/ diff <= Val(min_diff)
             THEN NearestScan_LastOnTies(points, target_time, i + 1, Some(points[i]), Some(diff))
             ELSE NearestScan_LastOnTies(points, target_time, i + 1, nearest, min_diff)

RECURSIVE NearestScan(_, _, _, _, _)
NearestScan(points, target_time, i, nearest, min_diff) ==
    IF i > Len(points) THEN nearest
    ELSE IF IsNone(points[i].timestamp)
    THEN NearestScan(points, target_time, i + 1, nearest, min_diff)
    ELSE LET diff == Abs(Val(points[i].timestamp) - target_time)
         IN  IF IsNone(min_diff) \/ diff < Val(min_diff)
             THEN NearestScan(points, target_time, i + 1, Some(points[i]), Some(diff))
             ELSE NearestScan(points, target_time, i + 1, nearest, min_diff)

FindNearestPoint(track, target_time) ==
    IF IsNone(track) \/ is_empty(Val(track)) THEN None
    ELSE NearestScan(Val(track).points, target_time, 1, None, None)

OffsetHours_MinusFirst == <<0, -1, 1, -2, 2>>

OffsetHours == <<0, 1, -1, 2, -2>>

\* the for loop over offset_hours in get_position_at_time, from the k-th offset on
RECURSIVE TryOffsets(_, _, _)
TryOffsets(points, target_time, k) ==
    IF k > Len(OffsetHours) THEN None
    ELSE LET adjusted_time == target_time + OffsetHours[k] * Hour
             result == FindPositionExact(points, adjusted_time)
         IN  IF IsSome(result) THEN result
             ELSE TryOffsets(points, target_time, k + 1)

NearestWithinTolerance_Strict(track, target_time, tolerance_hours) ==
    LET nearest == FindNearestPoint(track, target_time)
    IN  IF IsSome(nearest) /\ IsSome(Val(nearest).timestamp)
           /\ Abs(Val(Val(nearest).timestamp) - target_time) < tolerance_hours * Hour
        THEN nearest
        ELSE None

\* the last tier of get_position_at_time (diff_hours <= tolerance_hours)
NearestWithinTolerance(track, target_time, tolerance_hours) ==
    LET nearest == FindNearestPoint(track, target_time)
    IN  IF IsSome(nearest) /\ IsSome(Val(nearest).timestamp)
           /\ Abs(Val(Val(nearest).timestamp) - target_time) <= tolerance_hours * Hour
        THEN nearest
        ELSE None

GetPositionAtTime_AnyDistance(track, target_time, tolerance_hours) ==
    IF IsNone(track) \/ is_empty(Val(track)) THEN None
    ELSE LET points == Val(track).points
             result == FindPositionExact(points, target_time)
         IN  IF IsSome(result) THEN result
             ELSE LET shifted == TryOffsets(points, target_time, 1)
                  IN  IF IsSome(shifted) THEN shifted
                      ELSE FindNearestPoint(track, target_time)

GetPositionAtTime(track, target_time, tolerance_hours) ==
    IF IsNone(track) \/ is_empty(Val(track)) THEN None
    ELSE LET points == Val(track).points
             result == FindPositionExact(points, target_time)
         IN  IF IsSome(result) THEN result
             ELSE LET shifted == TryOffsets(points, target_time, 1)
                  IN  IF IsSome(shifted) THEN shifted
                      ELSE NearestWithinTolerance(track, target_time, tolerance_hours)

IsTimeInTrack_Exclusive(track, time_to_check, tolerance_seconds) ==
    IF IsNone(track) \/ IsNone(Val(track).start_time) \/ IsNone(Val(track).end_time)
    THEN FALSE
    ELSE /\ Val(Val(track).start_time) - tolerance_seconds < time_to_check
         /\ time_to_check < Val(Val(track).end_time) + tolerance_seconds

IsTimeInTrack(track, time_to_check, tolerance_seconds) ==
    IF IsNone(track) \/ IsNone(Val(track).start_time) \/ IsNone(Val(track).end_time)
    THEN FALSE
    ELSE /\ Val(Val(track).start_time) - tolerance_seconds <= time_to_check
         /\ time_to_check <= Val(Val(track).end_time) + tolerance_seconds

----------------------------------------------------------------------------
(* Datetimes of the use case: wall-clock seconds plus an optional UTC offset *)
(* (None for a naive datetime).                                              *)

DateTime(wall, utcoffset) == [wall |-> wall, utcoffset |-> utcoffset]
UtcDateTime(instant) == DateTime(instant, Some(0))
PlusSeconds(dt, seconds) == [dt EXCEPT !.wall = @ + seconds]
Instant(dt) == dt.wall - Val(dt.utcoffset)

\* pytz zones; the explored dates lie outside daylight-saving time.
\* "Mars/Olympus" is not a zone: pytz.timezone raises UnknownTimeZoneError.
Zones == {"Europe/Paris", "UTC", "America/New_York", "Mars/Olympus"}
KnownZone(zone) == zone \in {"Europe/Paris", "UTC", "America/New_York"}
UtcOffset(zone) ==
    CASE zone = "Europe/Paris" -> Hour
      [] zone = "UTC" -> 0
      [] zone = "America/New_York" -> -5 * Hour

\* local_tz.localize(naive).astimezone(timezone.utc)
LocalizeToUtc(wall, zone) == UtcDateTime(wall - UtcOffset(zone))

\* SyncVideosUseCase._ensure_utc
EnsureUtc(dt, zone) ==
    IF IsNone(dt.utcoffset) THEN LocalizeToUtc(dt.wall, zone)
    ELSE UtcDateTime(dt.wall - Val(dt.utcoffset))

----------------------------------------------------------------------------
(* Declarations the use case relies on *)

\* fields of the frozen dataclass SyncRequest
SyncRequestFields ==
    {"fit_path", "video_folder", "force_timestamp_sync", "camera_filter", "local_timezone"}

\* fields of the dataclass VideoLocation
VideoLocationFields ==
    {"video_path", "video_name", "position", "source", "creation_time",
     "duration_seconds", "custom_name", "custom_note", "marker_color", "marker_icon"}

\* attributes of FitParser, the only TrackSyncPort implementation
FitParserAttributes ==
    {"filepath", "track", "parse", "_extract_point_from_record", "is_time_in_track",
     "get_position_at_time", "_find_position_exact", "_interpolate", "_find_nearest_point"}

\* camera filters (the combo box values; accents dropped)
CameraFilters ==
    {"Auto (Detection)", "Hero 10 ou + (GPS)", "Hero 9 ou - (GPS)",
     "Hero 12 (Pas de GPS)", "DJI (Synchro .fit)", "Insta360 (Synchro .fit)"}

NoGpsProfile == "Hero 12 (Pas de GPS)"

SyncRequest(force_timestamp_sync, camera_filter, zone) ==
    [fit_path |-> "activity.fit", video_folder |-> "videos",
     force_timestamp_sync |-> force_timestamp_sync,
     camera_filter |-> camera_filter, local_timezone |-> zone]

\* UniversalVideoMetadataAdapter.set_camera_type: which adapter serves the calls
CurrentAdapter(camera_type) ==
    IF camera_type \in {"DJI (Synchro .fit)", "Insta360 (Synchro .fit)"} THEN "generic"
    ELSE IF camera_type = "Hero 12 (Pas de GPS)" THEN "generic"
    ELSE "gopro"

\* extract_embedded_gps through the universal adapter: the generic adapter
\* returns None, the GoPro adapter returns the decoded points or None when
\* there are none
ExtractEmbeddedGps(camera_type, video) ==
    IF CurrentAdapter(camera_type) = "generic" THEN None
    ELSE IF Len(video.gpmf_points) > 0 THEN Some(video.gpmf_points) ELSE None

\* UniversalVideoMetadataAdapter.__init__: a GoPro and a generic adapter, each
\* with an empty cache (a dict from path to a dict from key to value)
NewUniversalAdapter ==
    [camera_type |-> "Auto", current |-> "gopro",
     gopro_cache |-> << >>, generic_cache |-> << >>]

\* UniversalVideoMetadataAdapter.set_camera_type
SetCameraType(adapter, camera_type) ==
    [adapter EXCEPT !.camera_type = camera_type, !.current = CurrentAdapter(camera_type)]

CachedLookup_SkipsNone(cache, video_path, key, probed) ==
    LET cached == IF video_path \in DOMAIN cache THEN cache[video_path] ELSE << >>
    IN  IF DOMAIN cached # {} /\ key \in DOMAIN cached /\ IsSome(cached[key])
        THEN [value |-> cached[key], hit |-> TRUE, cache |-> cache]
        ELSE [value |-> probed, hit |-> FALSE,
              cache |-> (video_path :> ((key :> probed) @@ cached)) @@ cache]

\* the memoized lookup of both adapters: cached = self._cache.get(path); a
\* stored key is returned, else the probe's result is stored and returned
CachedLookup(cache, video_path, key, probed) ==
    LET cached == IF video_path \in DOMAIN cache THEN cache[video_path] ELSE << >>
    IN  IF DOMAIN cached # {} /\ key \in DOMAIN cached
        THEN [value |-> cached[key], hit |-> TRUE, cache |-> cache]
        ELSE [value |-> probed, hit |-> FALSE,
              cache |-> (video_path :> ((key :> probed) @@ cached)) @@ cache]

\* the log entry of a set_camera_type call
TypeSet(previous, camera_type) ==
    [op |-> "set_camera_type", previous |-> previous, camera_type |-> camera_type]

\* what the external tools (ffprobe, ffmpeg + GpmfParser) report for a key
Probe(key, video) ==
    CASE key = "creation_time" -> video.creation_time
      [] key = "duration_seconds" -> video.duration_seconds
      [] key = "embedded_gps" ->
            IF Len(video.gpmf_points) > 0 THEN Some(video.gpmf_points) ELSE None

\* get_creation_time, get_duration_seconds or extract_embedded_gps of the
\* universal adapter: delegated to the current adapter; the generic
\* adapter's extract_embedded_gps returns None without looking anything up
AdapterLookup(adapter, key, video) ==
    IF adapter.current = "generic" /\ key = "embedded_gps"
    THEN [value |-> None, hit |-> FALSE, adapter |-> adapter]
    ELSE LET cache == IF adapter.current = "gopro" THEN adapter.gopro_cache
                      ELSE adapter.generic_cache
             r == CachedLookup(cache, video.path, key, Probe(key, video))
         IN  [value |-> r.value, hit |-> r.hit,
              adapter |-> IF adapter.current = "gopro"
                          THEN [adapter EXCEPT !.gopro_cache = r.cache]
                          ELSE [adapter EXCEPT !.generic_cache = r.cache]]

----------------------------------------------------------------------------
(* GpmfParser (infra/gopro/gopro_gps_extractor.py)                         *)
(* raw_data is a sequence of bytes (0..255); offsets count from 0 as in    *)
(* the code.  Struct formats are explored for the integer codes and for    *)
(* codes struct rejects; float and char payloads are not.  The time of a   *)
(* point is an optional rational number of seconds.                        *)

HEADER_SIZE == 8
MaxDop == 2000
Gps5Hertz == 18

\* the fourCC tags, as bytes
TagSCAL == <<83, 67, 65, 76>>
TagGPSU == <<71, 80, 83, 85>>
TagGPSF == <<71, 80, 83, 70>>
TagGPSP == <<71, 80, 83, 80>>
TagGPS5 == <<71, 80, 83, 53>>
TagGPS9 == <<71, 80, 83, 57>>

\* raw_data[start:stop]
Slice(data, start, stop) ==
    LET n == Len(data)
        a == IF start > n THEN n ELSE start
        b == IF stop > n THEN n ELSE stop
    IN  IF b <= a THEN << >> ELSE SubSeq(data, a + 1, b)

\* the big-endian unsigned value of a byte string
RECURSIVE BigEndian(_)
BigEndian(bytes) ==
    IF bytes = << >> THEN 0
    ELSE 256 * BigEndian(SubSeq(bytes, 1, Len(bytes) - 1)) + bytes[Len(bytes)]

\* GpmfParser._pad
RECURSIVE Pad(_)
Pad(n) == IF n % 4 # 0 THEN Pad(n + 1) ELSE n

\* GpmfParser._map_type: the struct format character (as a code point)
MapType(type_byte) ==
    CASE type_byte = 115 -> 104
      [] type_byte = 83 -> 72
      [] type_byte = 85 -> 99
      [] type_byte = 74 -> 81
      [] OTHER -> type_byte

\* struct's integer formats under '>': b B h H i I l L q Q
IntFormats == {98, 66, 104, 72, 105, 73, 108, 76, 113, 81}
FormatSize(format) ==
    CASE format \in {98, 66} -> 1
      [] format \in {104, 72} -> 2
      [] format \in {105, 73, 108, 76} -> 4
      [] format \in {113, 81} -> 8
FormatSigned(format) == format \in {98, 104, 105, 108, 113}

\* one field read by struct: two's complement for the signed formats (the
\* leading byte of a negative value counts as byte - 256)
Field(format, bytes) ==
    IF FormatSigned(format) /\ bytes[1] >= 128
    THEN BigEndian(<<bytes[1] - 256>> \o Tail(bytes))
    ELSE BigEndian(bytes)

\* struct.Struct('>' + format * count).unpack_from(content): None stands for
\* struct.error (a format struct rejects, or a buffer that is too short); the
\* formats of the streams modelled are the integer ones and a character
\* struct does not know
UnpackFrom(format, count, content) ==
    IF format \notin IntFormats THEN None
    ELSE IF Len(content) < count * FormatSize(format) THEN None
    ELSE Some([i \in 1..count |->
                 Field(format, SubSeq(content, (i - 1) * FormatSize(format) + 1,
                                      i * FormatSize(format)))])

\* GpmfParser.__init__
NewGpmfParser ==
    [scale |-> <<1, 1, 1, 1, 1, 1, 1, 1, 1>>, gps_fix |-> 0, gps_precision |-> 0,
     gps_time |-> None]

\* the outcome of processing one item: the parser's fields afterwards, the
\* points it yielded, and whether an exception left _process_klv
Processed(parser, points) == [raised |-> FALSE, parser |-> parser, points |-> points]
Failed(parser) == [raised |-> TRUE, parser |-> parser, points |-> << >>]

\* `not raw_content`: None or an empty byte string
Empty(raw_content) == IsNone(raw_content) \/ Val(raw_content) = << >>

ParseScale_PadsWithLast(parser, type_byte, repeat, raw_content) ==
    IF Empty(raw_content) THEN Processed(parser, << >>)
    ELSE LET values == UnpackFrom(MapType(type_byte), repeat, Val(raw_content))
         IN  IF IsNone(values) THEN Failed(parser)
             ELSE Processed([parser EXCEPT !.scale =
                                [i \in 1..9 |-> Val(values)[IF i < repeat THEN i ELSE repeat]]],
                            << >>)

\* GpmfParser._parse_scale
ParseScale(parser, type_byte, repeat, raw_content) ==
    IF Empty(raw_content) THEN Processed(parser, << >>)
    ELSE LET values == UnpackFrom(MapType(type_byte), repeat, Val(raw_content))
         IN  IF IsNone(values) THEN Failed(parser)
             ELSE IF repeat = 1
             THEN Processed([parser EXCEPT !.scale = [i \in 1..9 |-> Val(values)[1]]], << >>)
             ELSE Processed([parser EXCEPT !.scale =
                                Val(values) \o [i \in 1..(IF repeat < 9 THEN 9 - repeat ELSE 0) |-> 1]],
                            << >>)

\* a decimal number written in ASCII digits
RECURSIVE Digits(_)
Digits(bytes) ==
    IF bytes = << >> THEN 0
    ELSE 10 * Digits(SubSeq(bytes, 1, Len(bytes) - 1)) + (bytes[Len(bytes)] - 48)

\* GpmfParser._parse_gps_time: 'yymmddhhmmss.fff'; never raises.  The date
\* and the fraction are checked but not kept: the time is the second of
\* the day.
ParseGpsTime(parser, raw_content) ==
    IF Empty(raw_content) THEN parser
    ELSE LET s == Val(raw_content)
             digits == {i \in 1..Len(s) : 48 <= s[i] /\ s[i] <= 57}
             month == Digits(SubSeq(s, 3, 4))
             day == Digits(SubSeq(s, 5, 6))
             hh == Digits(SubSeq(s, 7, 8))
             mm == Digits(SubSeq(s, 9, 10))
             ss == Digits(SubSeq(s, 11, 12))
         IN  IF /\ Len(s) \in 14..19
                /\ s[13] = 46
                /\ digits = (1..Len(s)) \ {13}
                /\ month \in 1..12 /\ day \in 1..28
                /\ hh < 24 /\ mm < 60 /\ ss < 60
             THEN [parser EXCEPT !.gps_time = Some(Rat(hh * 3600 + mm * 60 + ss, 1))]
             ELSE parser

\* the GPSF and GPSP branches of _process_klv
ParseSingle(parser, field, type_byte, raw_content) ==
    IF Empty(raw_content) THEN Processed(parser, << >>)
    ELSE LET values == UnpackFrom(MapType(type_byte), 1, Val(raw_content))
         IN  IF IsNone(values) THEN Failed(parser)
             ELSE Processed([parser EXCEPT ![field] = Val(values)[1]], << >>)

\* data[i] / self.scale[i] if self.scale[i] else data[i]
Scaled(value, divisor) == IF divisor # 0 THEN Rat(value, divisor) ELSE Rat(value, 1)

\* degrees in the unit of GPSPoint (1/100 degree)
Degrees(r) == Rat(100 * r.num, r.den)

RatAdd(a, b) == Rat(a.num * b.den + b.num * a.den, a.den * b.den)

Gps5Accepts_IgnoresFix(parser) == parser.gps_precision <= MaxDop

\* _parse_gps5, lines 235-240: the group is read only with a fix and a
\* precision of at most 2000
Gps5Accepts(parser) == parser.gps_fix # 0 /\ parser.gps_precision <= MaxDop

\* the body of the loop of _parse_gps5 for sample r: the point it appends, if
\* any (struct.error is swallowed by the loop)
Gps5Sample(parser, type_byte, size, repeat, content, r) ==
    LET item_size == size * 5
        data == UnpackFrom(MapType(type_byte), 5,
                           Slice(content, r * item_size, (r + 1) * item_size))
    IN  IF IsNone(data) THEN << >>
        ELSE LET lat == Scaled(Val(data)[1], parser.scale[1])
                 lon == Scaled(Val(data)[2], parser.scale[2])
                 alt == Scaled(Val(data)[3], parser.scale[3])
                 speed == Scaled(Val(data)[4], parser.scale[4])
                 point_time == IF IsSome(parser.gps_time) /\ repeat > 1
                               THEN Some(RatAdd(Val(parser.gps_time), Rat(r, Gps5Hertz)))
                               ELSE parser.gps_time
                 point == GPSPoint(Degrees(lat), Degrees(lon), alt, point_time, speed)
             IN  IF lat.num = 0 /\ lon.num = 0 THEN << >>
                 ELSE IF is_valid(point) THEN <<point>>
                 ELSE << >>

RECURSIVE Gps5Samples(_, _, _, _, _, _)
Gps5Samples(parser, type_byte, size, repeat, content, r) ==
    IF r >= repeat THEN << >>
    ELSE Gps5Sample(parser, type_byte, size, repeat, content, r)
         \o Gps5Samples(parser, type_byte, size, repeat, content, r + 1)

\* GpmfParser._parse_gps5
ParseGps5(parser, type_byte, size, repeat, raw_content) ==
    IF Empty(raw_content) THEN << >>
    ELSE IF ~Gps5Accepts(parser) THEN << >>
    ELSE Gps5Samples(parser, type_byte, size, repeat, Val(raw_content), 0)

Gps9Accepts_Carried(parser, fix, dop) ==
    parser.gps_fix # 0 /\ parser.gps_precision <= MaxDop

\* _parse_gps9, lines 304-312: the record is read only with a fix and a
\* precision of at most 2000 of its own
Gps9Accepts(parser, fix, dop) == fix # 0 /\ dop <= MaxDop

\* the body of the loop of _parse_gps9 for record r: 7 signed 32-bit and 2
\* unsigned 16-bit fields, 32 bytes
Gps9Sample(parser, content, r) ==
    LET item_size == 4 * 7 + 2 * 2
        record == Slice(content, r * item_size, (r + 1) * item_size)
        longs == UnpackFrom(108, 7, record)
        shorts == UnpackFrom(72, 2, Slice(record, 28, 32))
    IN  IF IsNone(longs) \/ IsNone(shorts) THEN << >>
        ELSE LET fix == Val(shorts)[2]
                 dop == Val(shorts)[1]
                 lat == Scaled(Val(longs)[1], parser.scale[1])
                 lon == Scaled(Val(longs)[2], parser.scale[2])
                 alt == Scaled(Val(longs)[3], parser.scale[3])
                 speed == Scaled(Val(longs)[4], parser.scale[4])
                 days == Scaled(Val(longs)[6], parser.scale[6])
                 secs == Scaled(Val(longs)[7], parser.scale[7])
                 point_time == RatAdd(Rat(86400 * days.num, days.den), secs)
                 point == GPSPoint(Degrees(lat), Degrees(lon), alt, Some(point_time), speed)
             IN  IF ~Gps9Accepts(parser, fix, dop) THEN << >>
                 ELSE IF lat.num = 0 /\ lon.num = 0 THEN << >>
                 ELSE IF is_valid(point) THEN <<point>>
                 ELSE << >>

RECURSIVE Gps9Samples(_, _, _, _)
Gps9Samples(parser, repeat, content, r) ==
    IF r >= repeat THEN << >>
    ELSE Gps9Sample(parser, content, r) \o Gps9Samples(parser, repeat, content, r + 1)

\* GpmfParser._parse_gps9
ParseGps9(parser, repeat, raw_content) ==
    IF Empty(raw_content) THEN << >>
    ELSE Gps9Samples(parser, repeat, Val(raw_content), 0)

\* GpmfParser._process_klv
ProcessKlv(parser, fourcc, type_byte, size, repeat, raw_content) ==
    CASE fourcc = TagSCAL -> ParseScale(parser, type_byte, repeat, raw_content)
      [] fourcc = TagGPSU -> Processed(ParseGpsTime(parser, raw_content), << >>)
      [] fourcc = TagGPSF -> ParseSingle(parser, "gps_fix", type_byte, raw_content)
      [] fourcc = TagGPSP -> ParseSingle(parser, "gps_precision", type_byte, raw_content)
      [] fourcc = TagGPS5 ->
            Processed(parser, ParseGps5(parser, type_byte, size, repeat, raw_content))
      [] fourcc = TagGPS9 -> Processed(parser, ParseGps9(parser, repeat, raw_content))
      [] OTHER -> Processed(parser, << >>)

\* the header at an offset: fourCC, type, size, repeat ('>4sBBH')
HeaderAt(raw_data, offset) ==
    LET header_data == Slice(raw_data, offset, offset + HEADER_SIZE)
    IN  [fourcc |-> SubSeq(header_data, 1, 4), type_byte |-> header_data[5],
         size |-> header_data[6], repeat |-> 256 * header_data[7] + header_data[8]]

\* the frame of GpmfParser.parse before the loop
NewParse(raw_data) ==
    [raw_data |-> raw_data, parser |-> NewGpmfParser, points |-> << >>, offset |-> 0,
     steps |-> << >>]

OnError_Stuck(raw_data, offset) == offset

\* lines 127-130: the offset after an exception
OnError(raw_data, offset) == offset + HEADER_SIZE

\* one iteration of the loop of parse, lines 92-130, on a full header
ParseIteration(frame) ==
    LET h == HeaderAt(frame.raw_data, frame.offset)
        padded_length == Pad(h.size * h.repeat)
        data_start == frame.offset + HEADER_SIZE
        raw_content == IF h.type_byte # 0
                       THEN Some(Slice(frame.raw_data, data_start, data_start + padded_length))
                       ELSE None
        k == ProcessKlv(frame.parser, h.fourcc, h.type_byte, h.size, h.repeat, raw_content)
        step == [offset |-> frame.offset, parser |-> frame.parser, raised |-> k.raised,
                 points |-> k.points]
    IN  IF k.raised
        THEN [frame EXCEPT !.offset = OnError(frame.raw_data, frame.offset),
                           !.steps = Append(@, step)]
        ELSE [frame EXCEPT !.parser = k.parser,
                           !.points = @ \o k.points,
                           !.offset = @ + HEADER_SIZE
                                        + (IF h.type_byte # 0 THEN padded_length ELSE 0),
                           !.steps = Append(@, step)]

\* the loop goes on: offset < len(data) and a full header is left
HeaderLeft(frame) ==
    /\ frame.offset < Len(frame.raw_data)
    /\ Len(Slice(frame.raw_data, frame.offset, frame.offset + HEADER_SIZE)) >= HEADER_SIZE

----------------------------------------------------------------------------
(* SyncVideosUseCase (core/usecases/sync_videos.py) *)

Returned(value, made) == [value |-> value, calls |-> made]

HasTrack(track_sync) == IsSome(track_sync) /\ IsSome(Val(track_sync).track)

ClockOffsets_WidestFirst == <<0, -7200, 7200, -3600, 3600>>

ClockOffsets == <<0, -3600, 3600, -7200, 7200>>

\* the loop over offsets in _smart_correct_timestamp, from the k-th offset on
RECURSIVE FirstOffsetInTrack(_, _, _, _)
FirstOffsetInTrack(track_sync, zone, creation_time, k) ==
    IF k > Len(ClockOffsets) THEN None
    ELSE LET shifted == PlusSeconds(creation_time, ClockOffsets[k])
         IN  IF IsTimeInTrack(Val(track_sync).track, Instant(EnsureUtc(shifted, zone)),
                              DefaultToleranceSeconds)
             THEN Some(shifted)
             ELSE FirstOffsetInTrack(track_sync, zone, creation_time, k + 1)

AcceptCorrected_NotStrict(diff_original, diff_corrected) ==
    diff_corrected <= diff_original /\ diff_corrected < MtimeWindowSeconds

AcceptCorrected(diff_original, diff_corrected) ==
    diff_corrected < diff_original /\ diff_corrected < MtimeWindowSeconds

\* step 2 of _smart_correct_timestamp (the try block); mtime is None when
\* file_stat.mtime_utc raises
MtimeFallback(zone, creation_time, mtime) ==
    IF IsNone(mtime) THEN Returned(Some(creation_time), {"mtime_utc"})
    ELSE IF ~KnownZone(zone) THEN Returned(Some(creation_time), {"mtime_utc"})
    ELSE LET naive == creation_time.wall
             corrected == LocalizeToUtc(naive, zone)
             diff_original == Abs(Val(mtime) - Instant(EnsureUtc(creation_time, zone)))
             diff_corrected == Abs(Val(mtime) - Instant(corrected))
         IN  IF AcceptCorrected(diff_original, diff_corrected)
             THEN Returned(Some(corrected), {"mtime_utc"})
             ELSE Returned(Some(creation_time), {"mtime_utc"})

SmartCorrectTimestamp_NoFallbackWithTrack(track_sync, zone, creation_time, mtime, manual_offset) ==
    IF IsNone(creation_time) THEN Returned(None, {})
    ELSE LET shifted_by_user == PlusSeconds(Val(creation_time), manual_offset)
         IN  IF HasTrack(track_sync)
             THEN LET hit == FirstOffsetInTrack(track_sync, zone, shifted_by_user, 1)
                  IN  IF IsSome(hit) THEN Returned(hit, {"is_time_in_track"})
                      ELSE Returned(Some(shifted_by_user), {"is_time_in_track"})
             ELSE MtimeFallback(zone, shifted_by_user, mtime)

SmartCorrectTimestamp(track_sync, zone, creation_time, mtime, manual_offset) ==
    IF IsNone(creation_time) THEN Returned(None, {})
    ELSE LET shifted_by_user == PlusSeconds(Val(creation_time), manual_offset)
             hit == IF HasTrack(track_sync)
                    THEN FirstOffsetInTrack(track_sync, zone, shifted_by_user, 1)
                    ELSE None
             tried == IF HasTrack(track_sync) THEN {"is_time_in_track"} ELSE {}
         IN  IF IsSome(hit) THEN Returned(hit, tried)
             ELSE LET fallback == MtimeFallback(zone, shifted_by_user, mtime)
                  IN  Returned(fallback.value, tried \cup fallback.calls)

\* an exception leaving the method
Raise(exc, line) == [kind |-> "raise", exc |-> exc, line |-> line]

\* VideoLocation(**kwargs): the generated dataclass __init__ rejects a keyword
\* that is not a field
NewVideoLocation(kwargs) ==
    IF DOMAIN kwargs \subseteq VideoLocationFields
    THEN [kind |-> "VideoLocation"] @@ kwargs
    ELSE Raise("TypeError", 86)

\* lines 66-68
EffectiveForce(request) ==
    request.force_timestamp_sync \/ request.camera_filter = NoGpsProfile

ShouldExtractEmbedded_IgnoresForce(request) ==
    request.camera_filter # NoGpsProfile

\* line 80
ShouldExtractEmbedded(request) ==
    ~EffectiveForce(request) /\ request.camera_filter # NoGpsProfile

\* lines 96-118, once creation_time and duration_seconds are known and the
\* embedded branch was not taken
LocateByTrack(track_sync, zone, video, creation_time, duration_seconds, made) ==
    LET unknown == NewVideoLocation(
                       [video_path |-> video.path, video_name |-> video.path,
                        position |-> None, source |-> "UNKNOWN",
                        creation_time |-> creation_time,
                        duration_seconds |-> duration_seconds])
    IN  IF HasTrack(track_sync) /\ IsSome(creation_time)
        THEN LET utc_time == EnsureUtc(Val(creation_time), zone)
                 position == GetPositionAtTime(Val(track_sync).track, Instant(utc_time), 2)
                 made2 == made \cup {"get_position_at_time"}
             IN  IF IsSome(position)
                 THEN IF "get_track_segment" \notin FitParserAttributes
                      THEN Returned(Raise("AttributeError", 100), made2)
                      ELSE Returned(NewVideoLocation(
                               [video_path |-> video.path, video_name |-> video.path,
                                position |-> position, source |-> "FIT_SYNC",
                                creation_time |-> creation_time,
                                duration_seconds |-> duration_seconds,
                                track_points |-> None]),
                               made2 \cup {"get_track_segment"})
                 ELSE Returned(unknown, made2)
        ELSE Returned(unknown, made)

\* lines 76-118, once the raw creation time (manual offset applied) is known
LocateWithCreationTime(request, track_sync, zone, video, raw_creation_time, made) ==
    LET corrected == SmartCorrectTimestamp(track_sync, zone, raw_creation_time, video.mtime, 0)
        creation_time == corrected.value
        duration_seconds == video.duration_seconds
        extract == ShouldExtractEmbedded(request)
        embedded_points == IF extract THEN ExtractEmbeddedGps(request.camera_filter, video)
                           ELSE None
        made2 == made \cup corrected.calls \cup {"get_duration_seconds"}
                      \cup (IF extract THEN {"extract_embedded_gps"} ELSE {})
    IN  IF ~EffectiveForce(request) /\ IsSome(embedded_points)
        THEN Returned(NewVideoLocation(
                 [video_path |-> video.path, video_name |-> video.path,
                  position |-> Some(Val(embedded_points)[1]), source |-> "EMBEDDED_GPS",
                  creation_time |-> creation_time,
                  duration_seconds |-> duration_seconds,
                  track_points |-> embedded_points]), made2)
        ELSE LocateByTrack(track_sync, zone, video, creation_time, duration_seconds, made2)

\* SyncVideosUseCase._locate_one
LocateOne(request, track_sync, zone, video) ==
    LET raw_creation_time == video.creation_time
        made == {"get_creation_time"}
    IN  IF IsSome(raw_creation_time)
        THEN IF "manual_offset_seconds" \notin DOMAIN request
             THEN Returned(Raise("AttributeError", 73), made)
             ELSE LocateWithCreationTime(request, track_sync, zone, video,
                      IF request.manual_offset_seconds # 0
                      THEN Some(PlusSeconds(Val(raw_creation_time), request.manual_offset_seconds))
                      ELSE raw_creation_time,
                      made)
        ELSE LocateWithCreationTime(request, track_sync, zone, video, raw_creation_time, made)

----------------------------------------------------------------------------
(* Inputs *)

\* the i-th record of a FIT file: distinct, valid coordinates per position
\* (1/100 degree), altitude (m) and speed (m/s)
RecordPoint(i, ts) ==
    GPSPoint(Whole(4800 + 10 * i), Whole(200 + 7 * i), Whole(100 * i), ts, Whole(3 * i))

\* a record's timestamp: absent, or on a whole hour of the recording
TrackHours == {0, 1, 2, 3}
TrackStamps == {None} \cup {Some(k * Hour) : k \in TrackHours}

\* what FitParser.parse can leave in self.track: nothing, or a non-empty
\* track of valid points in file order, timestamps neither required nor sorted
ParsedTrack(n, stamps) ==
    IF n = 0 THEN None
    ELSE Some(GPSTrack([i \in 1..n |-> RecordPoint(i, stamps[i])]))

\* instants asked for: every half hour of the recording and around it
Targets ==
    {k * HalfHour : k \in (-TargetMargin)..(2 * (Cardinality(TrackHours) - 1) + TargetMargin)}

ToleranceHours == {1, 2}

\* tolerances of is_time_in_track: none, the default, and half an hour
ToleranceSeconds == {0, DefaultToleranceSeconds, HalfHour}

\* creation times and mtimes are UTC-aware (ffprobe tags, os.path.getmtime)
CreationTimes == {UtcDateTime(t) : t \in Targets}

Mtimes == {None} \cup {Some(t) : t \in Targets}

EmbeddedA == GPSPoint(Whole(4550), Whole(610), Whole(1200), Some(Hour), Whole(5))
EmbeddedB == GPSPoint(Whole(4551), Whole(612), Whole(1210), Some(Hour + 1), Whole(6))

\* the world of one video file, as the ports see it
Video(creation_time, duration_seconds, gpmf_points, mtime) ==
    [path |-> "GX010001.MP4", creation_time |-> creation_time,
     duration_seconds |-> duration_seconds, gpmf_points |-> gpmf_points,
     mtime |-> mtime]

Videos ==
    {Video(c, d, g, m) :
        c \in {None, Some(UtcDateTime(HalfHour)), Some(UtcDateTime(3 * Hour))},
        d \in {None, Some(60)},
        g \in {<< >>, <<EmbeddedA>>, <<EmbeddedB, EmbeddedA>>},
        m \in {None, Some(HalfHour)}}

Requests ==
    {SyncRequest(f, c, "Europe/Paris") : f \in BOOLEAN, c \in CameraFilters}

\* the user's manual offset (seconds)
ManualOffsets == {0, Hour}

\* file names of a folder: "B.MP4", "a.mp4", "b.mp4", "a.txt", "c.Mp4"
FileB_MP4 == <<66, 46, 77, 80, 52>>
FileA_mp4 == <<97, 46, 109, 112, 52>>
FileB_mp4 == <<98, 46, 109, 112, 52>>
FileA_txt == <<97, 46, 116, 120, 116>>
FileC_Mp4 == <<99, 46, 77, 112, 52>>
VideoFileNames == {FileB_MP4, FileA_mp4, FileB_mp4}
FileNames == VideoFileNames \cup {FileA_txt, FileC_Mp4}

\* a file ffprobe and os.path.getmtime tell nothing about
NoMetadata == Video(None, None, << >>, None)
NotAVideo == NoMetadata

\* the videos of a batch: without metadata, with a creation time, with
\* embedded GPS only
BatchVideos ==
    {NoMetadata,
     Video(Some(UtcDateTime(HalfHour)), Some(60), << >>, Some(HalfHour)),
     Video(None, Some(60), <<EmbeddedA>>, None)}

\* the lookups of a metadata adapter
AdapterKeys == {"creation_time", "duration_seconds", "embedded_gps"}

\* the videos the adapter is asked about: one with embedded GPS, the same
\* file while ffprobe cannot read it (what the tools report about a path can
\* change between two calls), and another file that ffprobe cannot read
ProbedVideos ==
    {Video(Some(UtcDateTime(HalfHour)), Some(60), <<EmbeddedA>>, Some(HalfHour)),
     NoMetadata,
     [NoMetadata EXCEPT !.path = "GX010002.MP4"]}

\* encoders of the GPMF items of a stream
U16Bytes(v) == <<v \div 256, v % 256>>
I32Bytes(v) ==
    <<(v \div 16777216) % 256, (v \div 65536) % 256, (v \div 256) % 256, v % 256>>
ItemHeader(fourcc, type_byte, size, repeat) == fourcc \o <<type_byte, size>> \o U16Bytes(repeat)

\* GPSF as an unsigned 32-bit value, GPSP as an unsigned 16-bit value
ItemGPSF(fix) == ItemHeader(TagGPSF, 76, 4, 1) \o I32Bytes(fix)
ItemGPSP(dop) == ItemHeader(TagGPSP, 83, 2, 1) \o U16Bytes(dop) \o <<0, 0>>

\* one GPS5 sample: lat, lon, alt, speed, speed3d as signed 32-bit values
Gps5Bytes(lat, lon) ==
    I32Bytes(lat) \o I32Bytes(lon) \o I32Bytes(120) \o I32Bytes(3) \o I32Bytes(4)

\* a GPS5 group of one sample (type 'l', size 20, repeat 1), and a group of
\* two samples declared as ten 4-byte values (type 'l', size 4, repeat 10)
ItemGPS5(lat, lon) == ItemHeader(TagGPS5, 108, 20, 1) \o Gps5Bytes(lat, lon)
ItemGPS5Pair(lat1, lon1, lat2, lon2) ==
    ItemHeader(TagGPS5, 108, 4, 10) \o Gps5Bytes(lat1, lon1) \o Gps5Bytes(lat2, lon2)

\* GPSF items whose type code ('z') struct rejects, with 8 and 4 payload bytes
ItemBadFix8 == ItemHeader(TagGPSF, 122, 4, 2) \o <<0, 0, 0, 0, 0, 0, 0, 0>>
ItemBadFix4 == ItemHeader(TagGPSF, 122, 4, 1) \o <<0, 0, 0, 3>>

\* a nested container "STRM": type 0, its items follow
ItemContainer == ItemHeader(<<83, 84, 82, 77>>, 0, 1, 28)

GpmfItems ==
    {ItemGPSF(0), ItemGPSF(3), ItemGPSP(MaxDop), ItemGPSP(MaxDop + 1),
     ItemGPS5(48, 2), ItemGPS5Pair(0, 0, 47, 3),
     ItemBadFix8, ItemBadFix4, ItemContainer}

RECURSIVE Concat(_)
Concat(items) == IF items = << >> THEN << >> ELSE Head(items) \o Concat(Tail(items))

\* a SCAL item of signed 32-bit divisors (type 'l', size 4, one per field)
RECURSIVE I32Sequence(_)
I32Sequence(values) ==
    IF values = << >> THEN << >> ELSE I32Bytes(Head(values)) \o I32Sequence(Tail(values))
ItemSCAL(divisors) == ItemHeader(TagSCAL, 108, 4, Len(divisors)) \o I32Sequence(divisors)

\* one GPS9 record: lat, lon, alt, speed, speed3d, days, secs as signed 32-bit
\* values, then dop and fix as unsigned 16-bit values
Gps9Bytes(lat, lon, dop, fix) ==
    I32Sequence(<<lat, lon, 120, 3, 4, 100, 50>>) \o U16Bytes(dop) \o U16Bytes(fix)

\* a GPS9 group of two records (type '?', size 32, repeat 2)
ItemGPS9(record1, record2) == ItemHeader(TagGPS9, 63, 32, 2) \o record1 \o record2

\* the items of the streams with scales and GPS9 groups
ScaledItems ==
    {ItemSCAL(<<100>>), ItemSCAL(<<10, 20>>), ItemGPSF(3), ItemGPSP(MaxDop + 1),
     ItemGPS5(4800, 200),
     ItemGPS9(Gps9Bytes(48, 2, 100, 3), Gps9Bytes(47, 3, 100, 0)),
     ItemGPS9(Gps9Bytes(46, 4, MaxDop + 1, 3), Gps9Bytes(4500, 500, MaxDop, 2))}

\* pieces of streams cut short: a whole item, an item that lost half of its
\* payload, an item of an unknown tag that lost all of its payload, and less
\* than a header
CutItems ==
    {ItemGPSF(3), SubSeq(ItemGPSF(3), 1, HEADER_SIZE + 2),
     ItemHeader(<<65, 67, 67, 76>>, 115, 6, 2), <<71, 80, 83>>}

----------------------------------------------------------------------------
(* MainWindow (ui/main_window.py), FileLoaderWidget and ProjectManager      *)
(* An optional string is None or Some(text).  A project file holds JSON:   *)
(* null or a string for each optional value.                               *)

DefaultMarkerColor == "#3388ff"
DefaultMarkerIcon == "circle"

\* Python's truth value of an Optional[str]
Truthy(text) == IsSome(text) /\ Val(text) # ""

\* json.dump and json.load of an Optional[str]
JsonNull == [json |-> "null"]
JsonString(text) == [json |-> "string", text |-> text]
JsonDump(value) == IF IsNone(value) THEN JsonNull ELSE JsonString(Val(value))
JsonLoad(encoded) == IF encoded.json = "null" THEN None ELSE Some(encoded.text)

\* the user-editable part of a VideoLocation (gps_types.py, lines 120-124)
EditedLocation(video_path, custom_name, custom_note, marker_color, marker_icon) ==
    [video_path |-> video_path, custom_name |-> custom_name, custom_note |-> custom_note,
     marker_color |-> marker_color, marker_icon |-> marker_icon]

\* _save_project, lines 476-479: saved only if modified
Modified(v) ==
    \/ Truthy(v.custom_name)
    \/ Truthy(v.custom_note)
    \/ v.marker_color # DefaultMarkerColor
    \/ v.marker_icon # DefaultMarkerIcon

\* _save_project, lines 473-486: the video_metadata mapping, as written to
\* the file (a later entry of the same path replaces an earlier one)
SavedMetadata(video_locations) ==
    LET saved == {i \in 1..Len(video_locations) : Modified(video_locations[i])}
        last(path) == CHOOSE i \in saved :
                         /\ video_locations[i].video_path = path
                         /\ \A j \in saved : video_locations[j].video_path = path => j <= i
    IN  [path \in {video_locations[i].video_path : i \in saved} |->
            LET v == video_locations[last(path)]
            IN  [custom_name |-> JsonDump(v.custom_name),
                 custom_note |-> JsonDump(v.custom_note),
                 marker_color |-> JsonDump(Some(v.marker_color)),
                 marker_icon |-> JsonDump(Some(v.marker_icon))]]

\* _save_project, lines 488-493: the data handed to ProjectManager.save_project
ProjectData(w) ==
    [fit_path |-> JsonDump(w.fit_path),
     video_folder |-> JsonDump(w.video_folder),
     force_timestamp_sync |-> w.force_timestamp_sync,
     video_metadata |-> SavedMetadata(w.video_locations)]

\* _on_processing_finished, lines 353-360: the pending metadata applied to the
\* controller's video locations
ApplyPending(video_locations, pending_metadata) ==
    [i \in 1..Len(video_locations) |->
        LET v == video_locations[i]
        IN  IF v.video_path \in DOMAIN pending_metadata
            THEN LET meta == pending_metadata[v.video_path]
                 IN  [v EXCEPT !.custom_name = JsonLoad(meta.custom_name),
                               !.custom_note = JsonLoad(meta.custom_note),
                               !.marker_color = Val(JsonLoad(meta.marker_color)),
                               !.marker_icon = Val(JsonLoad(meta.marker_icon))]
            ELSE v]

\* os.path.exists of the paths a project can name
ExistingPaths == {"activity.fit", "videos"}

\* MainWindow.__init__ with a fresh SyncController and FileLoaderWidget; the
\* project file on disk is `project`
NewWindow(project) ==
    [fit_path |-> None, video_folder |-> None, video_locations |-> << >>,
     worker |-> None, threads |-> << >>,
     force_timestamp_sync |-> FALSE, chk_weak_gps |-> FALSE,
     camera_filter |-> "Auto (Détection)",
     pending_metadata |-> None, applied |-> None,
     btn_sync |-> FALSE, controls |-> TRUE,
     project |-> project]

\* FileLoaderWidget.set_processing
SetProcessing(w, processing) ==
    [w EXCEPT !.controls = ~processing,
              !.btn_sync = ~processing /\ IsSome(w.video_folder)]

\* _start_sync: without a fit path or a folder a warning and nothing else;
\* otherwise a new ProcessingWorker replaces self.worker and is started
StartSync(w) ==
    IF ~Truthy(w.fit_path) \/ ~Truthy(w.video_folder) THEN w
    ELSE [SetProcessing(w, TRUE) EXCEPT !.threads = Append(@, "running"),
                                        !.worker = Some(Len(w.threads) + 1)]

\* _on_weak_gps_toggled
OnWeakGpsToggled(w, enabled) ==
    LET toggled == [w EXCEPT !.force_timestamp_sync = enabled]
    IN  IF /\ toggled.video_locations # << >>
           /\ IsNone(toggled.worker)
           /\ Truthy(toggled.fit_path)
           /\ Truthy(toggled.video_folder)
        THEN StartSync(toggled)
        ELSE toggled

\* _on_fit_selected and _on_folder_selected
OnFitSelected(w, path) == [w EXCEPT !.fit_path = Some(path)]
OnFolderSelected(w, path) == [w EXCEPT !.video_folder = Some(path)]

\* FileLoaderWidget.set_fit_file, set_video_folder and set_weak_gps (the check
\* box emits toggled only when its state changes)
SetFitFile(w, path) == IF path \in ExistingPaths THEN OnFitSelected(w, path) ELSE w
SetVideoFolderWidget(w, path) ==
    IF path \in ExistingPaths THEN OnFolderSelected([w EXCEPT !.btn_sync = TRUE], path) ELSE w
SetWeakGps(w, enabled) ==
    IF w.chk_weak_gps = enabled THEN w
    ELSE OnWeakGpsToggled([w EXCEPT !.chk_weak_gps = enabled], enabled)

\* _load_project on a file ProjectManager.load_project could read
LoadProjectData(w, data) ==
    LET fit_path == JsonLoad(data.fit_path)
        folder == JsonLoad(data.video_folder)
        force_weak == data.force_timestamp_sync
        w1 == [w EXCEPT !.pending_metadata = Some(data.video_metadata)]
        w2 == IF Truthy(fit_path) THEN SetFitFile(w1, Val(fit_path)) ELSE w1
        w3 == IF Truthy(folder) THEN SetVideoFolderWidget(w2, Val(folder)) ELSE w2
        w4 == [SetWeakGps(w3, force_weak) EXCEPT !.force_timestamp_sync = force_weak]
    IN  IF /\ Truthy(fit_path) /\ Truthy(folder)
           /\ Val(fit_path) \in ExistingPaths /\ Val(folder) \in ExistingPaths
        THEN StartSync(w4)
        ELSE w4

\* _on_processing_finished, delivered for thread i
ProcessingFinished(w, i) ==
    LET idle == [SetProcessing(w, FALSE) EXCEPT !.worker = None, !.threads[i] = "handled"]
    IN  IF IsSome(w.pending_metadata) /\ DOMAIN Val(w.pending_metadata) # {}
        THEN [idle EXCEPT !.video_locations = ApplyPending(@, Val(w.pending_metadata)),
                          !.applied = w.pending_metadata,
                          !.pending_metadata = Some(<< >>)]
        ELSE idle

----------------------------------------------------------------------------
(* State machine *)

\* SyncController.__init__ and MainWindow.__init__: no parser yet
InitOf(zones, projects) ==
    /\ fit_parser = None
    /\ local_timezone \in zones
    /\ pc = "ready"
    /\ op = "init"
    /\ arg = << >>
    /\ ret = << >>
    /\ calls = {}
    /\ video_folder = None
    /\ run = None
    /\ events = << >>
    /\ video_metadata = NewUniversalAdapter
    /\ lookups = << >>
    /\ gpmf = None
    /\ window \in {NewWindow(project) : project \in projects}

InitWith(zones) == InitOf(zones, {None})

\* SyncController.load_fit_file: a fresh FitParser whose parse() leaves a
\* track of at most maxlen points, or none
LoadFitFile(maxlen) ==
    /\ pc = "ready"
    /\ IsNone(fit_parser)
    /\ \E n \in 0..maxlen :
          \E stamps \in [1..n -> TrackStamps] :
             fit_parser' = Some([filepath |-> "activity.fit", track |-> ParsedTrack(n, stamps)])
    /\ op' = "load_fit_file"
    /\ UNCHANGED <<local_timezone, pc, arg, ret, calls, execVars, adapterVars, gpmf, window>>

\* FitParser.get_position_at_time(target_time, tolerance_hours)
CallGetPositionAtTime ==
    /\ pc = "ready"
    /\ IsSome(fit_parser)
    /\ \E target_time \in Targets, tolerance_hours \in ToleranceHours :
          /\ arg' = [target_time |-> target_time, tolerance_hours |-> tolerance_hours]
          /\ ret' = GetPositionAtTime(Val(fit_parser).track, target_time, tolerance_hours)
    /\ op' = "get_position_at_time"
    /\ pc' = "done"
    /\ UNCHANGED <<fit_parser, local_timezone, calls, execVars, adapterVars, gpmf, window>>

\* FitParser._find_position_exact(points, target_time) on the parsed track
CallFindPositionExact ==
    /\ pc = "ready"
    /\ HasTrack(fit_parser)
    /\ \E target_time \in Targets :
          /\ arg' = [target_time |-> target_time]
          /\ ret' = FindPositionExact(Val(Val(fit_parser).track).points, target_time)
    /\ op' = "_find_position_exact"
    /\ pc' = "done"
    /\ UNCHANGED <<fit_parser, local_timezone, calls, execVars, adapterVars, gpmf, window>>

\* SyncVideosUseCase._smart_correct_timestamp(creation_time, video_path)
CallSmartCorrectTimestamp ==
    /\ pc = "ready"
    /\ \E creation_time \in {None} \cup {Some(c) : c \in CreationTimes}, mtime \in Mtimes :
          LET r == SmartCorrectTimestamp(fit_parser, local_timezone, creation_time, mtime, 0)
          IN  /\ arg' = [creation_time |-> creation_time, mtime |-> mtime]
              /\ ret' = r.value
              /\ calls' = r.calls
    /\ op' = "_smart_correct_timestamp"
    /\ pc' = "done"
    /\ UNCHANGED <<fit_parser, local_timezone, execVars, adapterVars, gpmf, window>>

\* SyncVideosUseCase._locate_one(request, video_path)
CallLocateOne ==
    /\ pc = "ready"
    /\ \E request \in Requests, video \in Videos :
          LET r == LocateOne(request, fit_parser, local_timezone, video)
          IN  /\ arg' = [request |-> request, video |-> video]
              /\ ret' = r.value
              /\ calls' = r.calls
    /\ op' = "_locate_one"
    /\ pc' = "done"
    /\ UNCHANGED <<fit_parser, local_timezone, execVars, adapterVars, gpmf, window>>

NextFit ==
    \/ LoadFitFile(MaxPoints)
    \/ CallGetPositionAtTime
    \/ CallFindPositionExact

\* the track queries do not read local_timezone: the controller's default
InitFit == InitWith({"Europe/Paris"})

SpecFit == InitFit /\ [][NextFit]_vars

\* FitParser.is_time_in_track(time_to_check, tolerance_seconds)
CallIsTimeInTrack ==
    /\ pc = "ready"
    /\ IsSome(fit_parser)
    /\ \E time_to_check \in Targets, tolerance_seconds \in ToleranceSeconds :
          /\ arg' = [time_to_check |-> time_to_check, tolerance_seconds |-> tolerance_seconds]
          /\ ret' = IsTimeInTrack(Val(fit_parser).track, time_to_check, tolerance_seconds)
    /\ op' = "is_time_in_track"
    /\ pc' = "done"
    /\ UNCHANGED <<fit_parser, local_timezone, calls, execVars, adapterVars, gpmf, window>>

NextSync ==
    \/ LoadFitFile(MaxSyncPoints)
    \/ CallSmartCorrectTimestamp
    \/ CallLocateOne
    \/ CallIsTimeInTrack

InitSync == InitWith(Zones)

SpecSync == InitSync /\ [][NextSync]_vars

----------------------------------------------------------------------------
(* OSVideoCatalog (infra/video/os_video_catalog.py)                        *)
(* A file name is the sequence of the code points of its characters; a     *)
(* path is folder + separator + name, so that paths of one folder compare  *)
(* as their names do, and the model keeps the name only.                   *)

Dot == 46

\* Python's str < str: lexicographic on code points
StrLess(a, b) ==
    \E k \in 1..(Len(a) + 1) :
       /\ \A j \in 1..(k - 1) : j <= Len(b) /\ a[j] = b[j]
       /\ \/ k <= Len(a) /\ k <= Len(b) /\ a[k] < b[k]
          \/ k = Len(a) + 1 /\ Len(b) > Len(a)

\* the second component of os.path.splitext(filename): from the last dot
\* on, unless only dots precede it
SplitExt(filename) ==
    LET dots == {i \in 1..Len(filename) : filename[i] = Dot}
    IN  IF dots = {} THEN << >>
        ELSE LET d == CHOOSE i \in dots : \A j \in dots : j <= i
             IN  IF \E i \in 1..(d - 1) : filename[i] # Dot
                 THEN SubSeq(filename, d, Len(filename))
                 ELSE << >>

RECURSIVE InsertSorted(_, _)
InsertSorted(x, sorted) ==
    IF sorted = << >> THEN <<x>>
    ELSE IF StrLess(x, Head(sorted)) THEN <<x>> \o sorted
    ELSE <<Head(sorted)>> \o InsertSorted(x, Tail(sorted))

\* sorted(video_files)
RECURSIVE Sorted(_)
Sorted(seq) ==
    IF seq = << >> THEN << >>
    ELSE InsertSorted(seq[Len(seq)], Sorted(SubSeq(seq, 1, Len(seq) - 1)))

\* OSVideoCatalog.list_videos; folder is None when os.listdir raises
\* FileNotFoundError
ListVideos(folder, extensions) ==
    IF IsNone(folder) THEN << >>
    ELSE LET filenames == [i \in 1..Len(Val(folder)) |-> Val(folder)[i].name]
             Matches(filename) == \E e \in 1..Len(extensions) : SplitExt(filename) = extensions[e]
         IN  Sorted(SelectSeq(filenames, Matches))

\* the world of the video file at a path of the folder
VideoAt(folder, video_path) ==
    LET entry == CHOOSE e \in {Val(folder)[i] : i \in 1..Len(Val(folder))} : e.name = video_path
    IN  [entry.video EXCEPT !.path = video_path]

----------------------------------------------------------------------------
(* SyncVideosUseCase.execute and SyncController.process_videos *)

\* line 33: [".mp4", ".MP4"]
Extensions == << <<46, 109, 112, 52>>, <<46, 77, 80, 52>> >>

\* ProgressEvent without its message
ProgressEvent(phase, current, total, video_path) ==
    [phase |-> phase, current |-> current, total |-> total, video_path |-> video_path]

SyncResult(track, video_locations) ==
    [kind |-> "SyncResult", track |-> track, video_locations |-> video_locations]

\* self.track_sync.track if self.track_sync else None
TrackOf(track_sync) == IF IsSome(track_sync) THEN Val(track_sync).track ELSE None

\* if reporter: reporter.report(event)
Report(reporter, received, event) ==
    IF reporter THEN Append(received, event) ELSE received

\* SyncRequest(**kwargs): the generated dataclass __init__ rejects a keyword
\* that is not a field
NewSyncRequest(kwargs) ==
    IF DOMAIN kwargs \subseteq SyncRequestFields THEN kwargs
    ELSE Raise("TypeError", 112)

\* VideoLocation.is_located
is_located(v) == IsSome(v.position) /\ is_valid(Val(v.position))

\* sum(1 for v in self.video_locations if v.is_located())
CountLocated(video_locations) ==
    Cardinality({i \in 1..Len(video_locations) : is_located(video_locations[i])})

\* sum(1 for v in self.video_locations if v.source.value == ...)
CountSource(video_locations, source) ==
    Cardinality({i \in 1..Len(video_locations) : video_locations[i].source = source})

GetSummary_CountsAll(video_locations, track) ==
    [total_videos |-> Len(video_locations),
     located_videos |-> Len(video_locations),
     embedded_gps |-> CountSource(video_locations, "EMBEDDED_GPS"),
     fit_synced |-> CountSource(video_locations, "FIT_SYNC"),
     not_located |-> 0,
     track_points |-> IF IsSome(track) THEN Len(Val(track).points) ELSE 0]

\* SyncController.get_summary over self.video_locations and self.track
GetSummary(video_locations, track) ==
    [total_videos |-> Len(video_locations),
     located_videos |-> CountLocated(video_locations),
     embedded_gps |-> CountSource(video_locations, "EMBEDDED_GPS"),
     fit_synced |-> CountSource(video_locations, "FIT_SYNC"),
     not_located |-> Len(video_locations) - CountLocated(video_locations),
     track_points |-> IF IsSome(track) THEN Len(Val(track).points) ELSE 0]

\* execute, lines 30-42: list the videos, return at once when there is none,
\* else enter the loop
ExecuteBegin(request, reporter) ==
    LET listed == Report(reporter, << >>, ProgressEvent("list_videos", 0, 0, None))
        video_paths == ListVideos(video_folder, Extensions)
        frame == [request |-> request, reporter |-> reporter, video_paths |-> video_paths,
                  total |-> Len(video_paths), idx |-> 1, results |-> << >>, line |-> 44]
    IN  /\ run' = Some(frame)
        /\ calls' = {}
        /\ IF video_paths = << >>
           THEN /\ events' = Report(reporter, listed, ProgressEvent("done", 0, 0, None))
                /\ ret' = SyncResult(TrackOf(fit_parser), << >>)
                /\ pc' = "done"
           ELSE /\ events' = listed
                /\ ret' = << >>
                /\ pc' = "running"

\* SyncVideosUseCase.execute(request, reporter) is entered
CallExecute ==
    /\ pc = "ready"
    /\ \E request \in Requests, reporter \in BOOLEAN :
          /\ arg' = [request |-> request, reporter |-> reporter]
          /\ ExecuteBegin(request, reporter)
    /\ op' = "execute"
    /\ UNCHANGED <<fit_parser, local_timezone, video_folder, adapterVars, gpmf, window>>

\* lines 44-54: the loop head and the PROCESS_VIDEO event of video idx
ReportVideo ==
    /\ pc = "running"
    /\ Val(run).line = 44
    /\ Val(run).idx <= Val(run).total
    /\ events' = Report(Val(run).reporter, events,
                        ProgressEvent("process_video", Val(run).idx, Val(run).total,
                                      Some(Val(run).video_paths[Val(run).idx])))
    /\ run' = Some([Val(run) EXCEPT !.line = 56])
    /\ UNCHANGED <<fit_parser, local_timezone, pc, op, arg, ret, calls, video_folder, adapterVars, gpmf, window>>

\* line 56: results.append(self._locate_one(request, video_path)); an
\* exception of _locate_one leaves execute, which has no handler
LocateVideo ==
    /\ pc = "running"
    /\ Val(run).line = 56
    /\ LET video_path == Val(run).video_paths[Val(run).idx]
           r == LocateOne(Val(run).request, fit_parser, local_timezone,
                          VideoAt(video_folder, video_path))
       IN  /\ calls' = r.calls
           /\ IF r.value.kind = "raise"
              THEN /\ ret' = r.value
                   /\ pc' = "done"
                   /\ run' = run
              ELSE /\ run' = Some([Val(run) EXCEPT !.results = Append(@, r.value),
                                                   !.idx = @ + 1, !.line = 44])
                   /\ UNCHANGED <<ret, pc>>
    /\ UNCHANGED <<fit_parser, local_timezone, op, arg, video_folder, events, adapterVars, gpmf, window>>

\* lines 58-61: the loop is exhausted
ExecuteEnd ==
    /\ pc = "running"
    /\ Val(run).line = 44
    /\ Val(run).idx > Val(run).total
    /\ events' = Report(Val(run).reporter, events,
                        ProgressEvent("done", Val(run).total, Val(run).total, None))
    /\ ret' = SyncResult(TrackOf(fit_parser), Val(run).results)
    /\ pc' = "done"
    /\ UNCHANGED <<fit_parser, local_timezone, op, arg, calls, video_folder, run, adapterVars, gpmf, window>>

\* MainWindow.closeEvent while the thread of the batch is running:
\* worker.terminate(); worker.wait()
CloseEvent ==
    /\ pc = "running"
    /\ pc' = "terminated"
    /\ UNCHANGED <<fit_parser, local_timezone, op, arg, ret, calls, execVars, adapterVars, gpmf, window>>

\* SyncController.process_videos(progress_callback, force_timestamp_sync,
\* camera_filter, manual_offset_seconds)
CallProcessVideos ==
    /\ pc = "ready"
    /\ \E force \in BOOLEAN, camera_filter \in CameraFilters, manual_offset_seconds \in ManualOffsets,
          progress_callback \in BOOLEAN :
          LET request == NewSyncRequest(
                             [fit_path |-> "activity.fit", video_folder |-> "videos",
                              force_timestamp_sync |-> force, camera_filter |-> camera_filter,
                              local_timezone |-> local_timezone,
                              manual_offset_seconds |-> manual_offset_seconds])
          IN  /\ arg' = [force_timestamp_sync |-> force, camera_filter |-> camera_filter,
                         manual_offset_seconds |-> manual_offset_seconds,
                         progress_callback |-> progress_callback]
              /\ IF IsNone(video_folder)
                 THEN /\ ret' = [kind |-> "list", items |-> << >>]
                      /\ pc' = "done"
                      /\ UNCHANGED <<calls, run, events, adapterVars>>
                 ELSE /\ video_metadata' = SetCameraType(video_metadata, camera_filter)
                      /\ lookups' = Append(lookups, TypeSet(video_metadata.camera_type,
                                                             camera_filter))
                      /\ IF "kind" \in DOMAIN request
                         THEN /\ ret' = request
                              /\ pc' = "done"
                              /\ UNCHANGED <<calls, run, events>>
                         ELSE ExecuteBegin(request, progress_callback)
    /\ op' = "process_videos"
    /\ UNCHANGED <<fit_parser, local_timezone, video_folder, gpmf, window>>

\* SyncController.set_video_folder on an existing directory
SetVideoFolder(maxfiles) ==
    /\ pc = "ready"
    /\ IsNone(video_folder)
    /\ \E n \in 0..maxfiles :
          \E filenames \in [1..n -> FileNames], videos \in [1..n -> BatchVideos] :
             /\ \A i, j \in 1..n : i # j => filenames[i] # filenames[j]
             /\ \A i \in 1..n : filenames[i] \notin VideoFileNames => videos[i] = NotAVideo
             /\ video_folder' = Some([i \in 1..n |-> [name |-> filenames[i], video |-> videos[i]]])
    /\ op' = "set_video_folder"
    /\ UNCHANGED <<fit_parser, local_timezone, pc, arg, ret, calls, run, events, adapterVars, gpmf, window>>

NextExec ==
    \/ SetVideoFolder(MaxFiles)
    \/ CallExecute
    \/ ReportVideo
    \/ LocateVideo
    \/ ExecuteEnd
    \/ CloseEvent
    \/ CallProcessVideos

InitExec == InitWith({"Europe/Paris"})

SpecExec == InitExec /\ [][NextExec]_vars

----------------------------------------------------------------------------
(* The metadata adapter of one controller *)

\* SyncController.set_camera_type(camera_type)
CallSetCameraType ==
    /\ pc = "ready"
    /\ Len(lookups) < MaxLookups
    /\ \E camera_type \in CameraFilters :
          /\ video_metadata' = SetCameraType(video_metadata, camera_type)
          /\ lookups' = Append(lookups, TypeSet(video_metadata.camera_type, camera_type))
          /\ arg' = [camera_type |-> camera_type]
    /\ op' = "set_camera_type"
    /\ UNCHANGED <<fit_parser, local_timezone, pc, ret, calls, execVars, gpmf, window>>

\* one of the three lookups of the adapter on a path
CallAdapterLookup ==
    /\ pc = "ready"
    /\ Len(lookups) < MaxLookups
    /\ \E key \in AdapterKeys, video \in ProbedVideos :
          LET r == AdapterLookup(video_metadata, key, video)
          IN  /\ video_metadata' = r.adapter
              /\ lookups' = Append(lookups,
                                   [op |-> key, video_path |-> video.path,
                                    adapter |-> video_metadata.current,
                                    hit |-> r.hit, value |-> r.value])
              /\ arg' = [key |-> key, video_path |-> video.path]
              /\ ret' = r.value
    /\ op' = "lookup"
    /\ UNCHANGED <<fit_parser, local_timezone, pc, calls, execVars, gpmf, window>>

NextAdapter ==
    \/ CallSetCameraType
    \/ CallAdapterLookup

InitAdapter == InitWith({"Europe/Paris"})

SpecAdapter == InitAdapter /\ [][NextAdapter]_vars

----------------------------------------------------------------------------
(* FitParser.parse and SyncController.load_fit_file                        *)
(* A record of the file carries optional position_lat, position_long and   *)
(* timestamp fields.  Semicircles are counted in units of 2^24, so that    *)
(* value * 180 / 2^31 degrees is k * 180 / 128; timestamps are instants    *)
(* (a naive one is taken as UTC, line 123).                                *)

\* lines 133-134: semicircles to degrees, in the unit of GPSPoint
SemicirclesToDegrees(k) == Rat(100 * 180 * k, 128)

\* FitParser._extract_point_from_record; altitude and speed fields are absent
ExtractPointFromRecord(record) ==
    IF IsNone(record.position_lat) \/ IsNone(record.position_long) THEN None
    ELSE Some(GPSPoint(SemicirclesToDegrees(Val(record.position_lat)),
                       SemicirclesToDegrees(Val(record.position_long)),
                       Whole(0), record.timestamp, Whole(0)))

RECURSIVE ValidPoints_KeepsInvalid(_)
ValidPoints_KeepsInvalid(records) ==
    IF records = << >> THEN << >>
    ELSE LET point == ExtractPointFromRecord(Head(records))
         IN  (IF IsSome(point) THEN <<Val(point)>> ELSE << >>)
                \o ValidPoints_KeepsInvalid(Tail(records))

\* lines 58-61: the loop over the "record" messages
RECURSIVE ValidPoints(_)
ValidPoints(records) ==
    IF records = << >> THEN << >>
    ELSE LET point == ExtractPointFromRecord(Head(records))
         IN  (IF IsSome(point) /\ is_valid(Val(point)) THEN <<Val(point)>> ELSE << >>)
                \o ValidPoints(Tail(records))

\* FitParser.parse: what it returns and stores in self.track.  fitparse not
\* installed (lines 42-47), no file (49-51), FitFile raising on the content
\* (90-92) and no valid point (63-65) all return None.
FitParse(file) ==
    IF ~file.installed THEN None
    ELSE IF ~file.exists THEN None
    ELSE IF ~file.decodable THEN None
    ELSE LET points == ValidPoints(file.records)
         IN  IF points = << >> THEN None ELSE Some(GPSTrack(points))

\* the records of a file
FitRecords ==
    {[position_lat |-> lat, position_long |-> lon, timestamp |-> ts] :
        lat \in {None, Some(0), Some(32), Some(65)},
        lon \in {None, Some(0)},
        ts \in {None, Some(0), Some(Hour)}}

FitFile(installed, exists, decodable, records) ==
    [installed |-> installed, exists |-> exists, decodable |-> decodable,
     records |-> records]

\* SyncController.load_fit_file(filepath)
CallLoadFitFile ==
    /\ pc = "ready"
    /\ IsNone(fit_parser)
    /\ \E installed, exists, decodable \in BOOLEAN :
          \E records \in UNION {[1..n -> FitRecords] : n \in 0..MaxRecords} :
             /\ (installed /\ exists /\ decodable) \/ records = << >>
             /\ LET file == FitFile(installed, exists, decodable, records)
                    track == FitParse(file)
                IN  /\ arg' = file
                    /\ fit_parser' = Some([filepath |-> "activity.fit", track |-> track])
                    /\ ret' = (IsSome(track) /\ ~is_empty(Val(track)))
    /\ op' = "load_fit_file"
    /\ pc' = "done"
    /\ UNCHANGED <<local_timezone, calls, execVars, adapterVars, gpmf, window>>

NextParse ==
    \/ CallLoadFitFile

InitParse == InitWith({"Europe/Paris"})

SpecParse == InitParse /\ [][NextParse]_vars

----------------------------------------------------------------------------
(* GpmfParser.parse, one loop iteration at a time *)

\* GpmfParser().parse(raw_data) is entered
CallParse ==
    /\ pc = "ready"
    /\ \E items \in UNION {[1..n -> GpmfItems] : n \in 0..MaxItems}
                      \cup UNION {[1..n -> ScaledItems] : n \in 1..MaxScaledItems}
                      \cup UNION {[1..n -> CutItems] : n \in 1..MaxCutItems} :
          /\ gpmf' = Some(NewParse(Concat(items)))
          /\ arg' = [items |-> items]
    /\ op' = "parse"
    /\ pc' = "parsing"
    /\ UNCHANGED <<fit_parser, local_timezone, ret, calls, execVars, adapterVars, window>>

\* lines 91-130: one iteration over a full header
ParseItem ==
    /\ pc = "parsing"
    /\ HeaderLeft(Val(gpmf))
    /\ gpmf' = Some(ParseIteration(Val(gpmf)))
    /\ UNCHANGED <<fit_parser, local_timezone, pc, op, arg, ret, calls, execVars, adapterVars, window>>

\* lines 91, 95-96, 132: the data is exhausted, or less than a header is left
ParseReturn ==
    /\ pc = "parsing"
    /\ ~HeaderLeft(Val(gpmf))
    /\ ret' = Val(gpmf).points
    /\ pc' = "done"
    /\ UNCHANGED <<fit_parser, local_timezone, op, arg, calls, execVars, adapterVars, gpmf, window>>

NextGpmf ==
    \/ CallParse
    \/ ParseItem
    \/ ParseReturn

InitGpmf == InitWith({"Europe/Paris"})

SpecGpmf == InitGpmf /\ [][NextGpmf]_vars

----------------------------------------------------------------------------
(* MainWindow: the events of the UI thread and the worker threads *)

\* the project files on disk when the window opens
EditsOfProject ==
    [path \in {"videos/GX010001.MP4"} |->
        [custom_name |-> JsonString("Col du Galibier"), custom_note |-> JsonNull,
         marker_color |-> JsonString("#ff0000"), marker_icon |-> JsonString("star")]]

ProjectFiles ==
    {None} \cup
    {Some([fit_path |-> JsonString(fit_path), video_folder |-> JsonString("videos"),
           force_timestamp_sync |-> force, video_metadata |-> metadata]) :
        fit_path \in {"activity.fit", "missing.fit"},
        force \in BOOLEAN,
        metadata \in {<< >>, EditsOfProject}}

CameraModels == {"Auto (Détection)", "Hero 12 (Pas de GPS)"}

windowFrame == <<fit_parser, local_timezone, pc, op, arg, ret, calls, execVars, adapterVars, gpmf>>

\* dropEvent with a .fit file, or the file dialog of the load button
DropFit ==
    /\ window' = SetFitFile(window, "activity.fit")
    /\ window' # window
    /\ UNCHANGED windowFrame

\* dropEvent with a directory, or the dialog of the folder button
DropFolder ==
    /\ window' = SetVideoFolderWidget(window, "videos")
    /\ window' # window
    /\ UNCHANGED windowFrame

\* the sync button, when enabled
ClickSync ==
    /\ window.btn_sync
    /\ Len(window.threads) < MaxWorkers
    /\ window' = StartSync(window)
    /\ UNCHANGED windowFrame

\* the weak-GPS check box, when enabled
ToggleWeakGps ==
    /\ window.controls
    /\ window' = OnWeakGpsToggled([window EXCEPT !.chk_weak_gps = ~@],
                                  ~window.chk_weak_gps)
    /\ UNCHANGED windowFrame

\* the camera combo box: camera_model_changed re-enters _on_weak_gps_toggled
ChangeCameraModel ==
    /\ \E model \in CameraModels \ {window.camera_filter} :
          window' = OnWeakGpsToggled([window EXCEPT !.camera_filter = model],
                                     window.force_timestamp_sync)
    /\ UNCHANGED windowFrame

\* File > Open and the recent projects menu
LoadProject ==
    /\ IsSome(window.project)
    /\ Len(window.threads) < MaxWorkers
    /\ window' = LoadProjectData(window, Val(window.project))
    /\ UNCHANGED windowFrame

\* File > Save, to the path of the project
SaveProject ==
    /\ window' = [window EXCEPT !.project = Some(ProjectData(window))]
    /\ window' # window
    /\ UNCHANGED windowFrame

\* ProcessingWorker.run, lines 50-98, as the window sees it: process_videos
\* builds its SyncRequest first, and video_locations is assigned only when
\* execute has returned
WorkerRun(w, i) ==
    LET request == NewSyncRequest(
                       [fit_path |-> w.fit_path, video_folder |-> w.video_folder,
                        force_timestamp_sync |-> w.force_timestamp_sync,
                        camera_filter |-> w.camera_filter,
                        local_timezone |-> "Europe/Paris",
                        manual_offset_seconds |-> 0])
    IN  IF "kind" \in DOMAIN request
        THEN [w EXCEPT !.threads[i] = "emitted"]
        ELSE [w EXCEPT !.threads[i] = "emitted",
                       !.video_locations =
                           <<EditedLocation("videos/GX010001.MP4", None, None,
                                            DefaultMarkerColor, DefaultMarkerIcon)>>]

\* a worker thread runs to the emission of finished_processing
WorkerEmits ==
    /\ \E i \in 1..Len(window.threads) :
          /\ window.threads[i] = "running"
          /\ window' = WorkerRun(window, i)
    /\ UNCHANGED windowFrame

\* the UI thread delivers finished_processing to _on_processing_finished
OnProcessingFinished ==
    /\ \E i \in 1..Len(window.threads) :
          /\ window.threads[i] = "emitted"
          /\ window' = ProcessingFinished(window, i)
    /\ UNCHANGED windowFrame

NextWindow ==
    \/ DropFit
    \/ DropFolder
    \/ ClickSync
    \/ ToggleWeakGps
    \/ ChangeCameraModel
    \/ LoadProject
    \/ SaveProject
    \/ WorkerEmits
    \/ OnProcessingFinished

InitWindow == InitOf({"Europe/Paris"}, ProjectFiles)

SpecWindow == InitWindow /\ [][NextWindow]_vars

----------------------------------------------------------------------------
(* Helpers of the properties *)

Min(S) == CHOOSE x \in S : \A y \in S : x <= y

LocateDone == pc = "done" /\ op = "_locate_one"
CorrectDone == pc = "done" /\ op = "_smart_correct_timestamp"
PositionDone == pc = "done" /\ op = "get_position_at_time"
ExactDone == pc = "done" /\ op = "_find_position_exact"

LoadedPoints == Val(Val(fit_parser).track).points

\* indices i of the consecutive pairs (points[i], points[i+1]) whose two
\* timestamps are present and bracket t
Brackets(points, t) ==
    {i \in 1..(Len(points) - 1) :
        /\ IsSome(points[i].timestamp)
        /\ IsSome(points[i + 1].timestamp)
        /\ Val(points[i].timestamp) <= t
        /\ t <= Val(points[i + 1].timestamp)}

OutsideRange(points, t) ==
    \/ IsSome(points[1].timestamp) /\ t < Val(points[1].timestamp)
    \/ IsSome(points[Len(points)].timestamp) /\ t > Val(points[Len(points)].timestamp)

\* the exact-bracket search finds a pair for t
Hits(points, t) == ~OutsideRange(points, t) /\ Brackets(points, t) # {}

----------------------------------------------------------------------------
(* Properties of _locate_one: embedded GPS and the force flag *)

\* C1: when the effective force flag is false and extract_embedded_gps
\* returns at least one point, _locate_one returns a VideoLocation with
\* source EMBEDDED_GPS whose position is the first extracted point, with or
\* without a loaded track.
C1_EmbeddedPrecedence ==
    (/\ LocateDone
     /\ ~(arg.request.force_timestamp_sync \/ arg.request.camera_filter = "Hero 12 (Pas de GPS)")
     /\ IsSome(ExtractEmbeddedGps(arg.request.camera_filter, arg.video)))
    => /\ ret.kind = "VideoLocation"
       /\ ret.source = "EMBEDDED_GPS"
       /\ ret.position = Some(arg.video.gpmf_points[1])

\* C2: when request.force_timestamp_sync is set or camera_filter is the
\* GPS-less profile, _locate_one does not call extract_embedded_gps and any
\* VideoLocation it returns has source FIT_SYNC or UNKNOWN, never
\* EMBEDDED_GPS, also for a video that carries embedded samples.
C2_ForcedBypass ==
    (/\ LocateDone
     /\ (arg.request.force_timestamp_sync \/ arg.request.camera_filter = "Hero 12 (Pas de GPS)"))
    => /\ "extract_embedded_gps" \notin calls
       /\ ret.kind = "VideoLocation" => ret.source \in {"FIT_SYNC", "UNKNOWN"}

\* a forced run on a video with embedded samples, served by the GoPro
\* adapter, that returned a VideoLocation
C2_Witness ==
    /\ LocateDone
    /\ arg.request.force_timestamp_sync
    /\ arg.request.camera_filter = "Auto (Detection)"
    /\ Len(arg.video.gpmf_points) > 0
    /\ ret.kind = "VideoLocation"
    /\ ret.source = "UNKNOWN"

\* C3: without embedded GPS and without force, _locate_one returns FIT_SYNC
\* with the point of get_position_at_time when a track is loaded, the
\* creation time is known and the track yields a point for it, and UNKNOWN
\* with position None in every other case.
C3_TrackSyncOrUnknown ==
    (/\ LocateDone
     /\ ~(arg.request.force_timestamp_sync \/ arg.request.camera_filter = "Hero 12 (Pas de GPS)")
     /\ IsNone(ExtractEmbeddedGps(arg.request.camera_filter, arg.video)))
    => LET creation_time ==
               SmartCorrectTimestamp(fit_parser, local_timezone,
                                     arg.video.creation_time, arg.video.mtime, 0).value
           position ==
               IF HasTrack(fit_parser) /\ IsSome(creation_time)
               THEN GetPositionAtTime(Val(fit_parser).track,
                                      Instant(EnsureUtc(Val(creation_time), local_timezone)), 2)
               ELSE None
       IN  /\ ret.kind = "VideoLocation"
           /\ ret.position = position
           /\ ret.source = (IF IsSome(position) THEN "FIT_SYNC" ELSE "UNKNOWN")

----------------------------------------------------------------------------
(* Properties of the FitParser track queries *)

\* the shifts of the claim, in seconds, in the order the claim gives them
ShiftOrder == <<0, 3600, -3600, 7200, -7200>>

ShiftHits(points, t) == {k \in 1..5 : Hits(points, t + ShiftOrder[k])}

\* C4: when the exact-bracket search on the unshifted target finds nothing,
\* get_position_at_time returns the result of the exact-bracket search at the
\* first of target+0, +1h, -1h, +2h, -2h that hits; when both +1h and -1h
\* hit, the result is the one for target+1h.
C4_ShiftPriority ==
    (/\ PositionDone
     /\ HasTrack(fit_parser)
     /\ ~Hits(LoadedPoints, arg.target_time)
     /\ ShiftHits(LoadedPoints, arg.target_time) # {})
    => LET first == Min(ShiftHits(LoadedPoints, arg.target_time))
       IN  /\ ret = FindPositionExact(LoadedPoints, arg.target_time + ShiftOrder[first])
           /\ IsSome(ret)
           /\ (Hits(LoadedPoints, arg.target_time + 3600)
                 /\ Hits(LoadedPoints, arg.target_time - 3600))
              => /\ first = 2
                 /\ Val(ret).timestamp = Some(arg.target_time + 3600)

\* both the +1h and the -1h search hit, in two different pairs of different
\* width, and the point returned is interpolated inside the +1h pair
C4_Witness ==
    /\ PositionDone
    /\ HasTrack(fit_parser)
    /\ ~Hits(LoadedPoints, arg.target_time)
    /\ Hits(LoadedPoints, arg.target_time + 3600)
    /\ Hits(LoadedPoints, arg.target_time - 3600)
    /\ IsSome(ret)
    /\ Val(ret).timestamp = Some(arg.target_time + 3600)
    /\ \A i \in 1..Len(LoadedPoints) : LoadedPoints[i].latitude # Val(ret).latitude
    /\ FindPositionExact(LoadedPoints, arg.target_time - 3600) # ret

\* C5: _find_position_exact returns None when the target is before the first
\* point's timestamp or after the last point's; otherwise it returns the
\* interpolation of the first consecutive pair, in sequence order, whose two
\* timestamps are present and bracket the target, and None when there is no
\* such pair; a pair with a missing timestamp is never used.
C5_FirstBracketingPair ==
    ExactDone
    => LET points == LoadedPoints
           t == arg.target_time
           pairs == Brackets(points, t)
       IN  /\ OutsideRange(points, t) => IsNone(ret)
           /\ (~OutsideRange(points, t) /\ pairs = {}) => IsNone(ret)
           /\ (~OutsideRange(points, t) /\ pairs # {})
              => ret = Some(Interpolate(points[Min(pairs)], points[Min(pairs) + 1], t))

\* two pairs bracket the target with different interpolations, a pair with a
\* missing timestamp comes before them, and the first bracketing pair wins
C5_Witness ==
    /\ ExactDone
    /\ ~OutsideRange(LoadedPoints, arg.target_time)
    /\ IsNone(LoadedPoints[1].timestamp)
    /\ \E i, j \in Brackets(LoadedPoints, arg.target_time) :
          /\ i < j
          /\ Interpolate(LoadedPoints[i], LoadedPoints[i + 1], arg.target_time)
               # Interpolate(LoadedPoints[j], LoadedPoints[j + 1], arg.target_time)
          /\ i = Min(Brackets(LoadedPoints, arg.target_time))
          /\ ret = Some(Interpolate(LoadedPoints[i], LoadedPoints[i + 1], arg.target_time))

\* v equals v1 + (v2 - v1) * (t - t1) / (t2 - t1), for t1 < t2
IsLerp(v, v1, v2, t, t1, t2) ==
    v.num * v1.den * v2.den * (t2 - t1)
      = v.den * (v1.num * v2.den * (t2 - t1) + (v2.num * v1.den - v1.num * v2.den) * (t - t1))

\* C6: for the bracketing pair (p1, p2) used by the search: when
\* p1.timestamp < p2.timestamp each of latitude, longitude, elevation and
\* speed of the result is p1.v + (p2.v - p1.v) * (target - p1.timestamp) /
\* (p2.timestamp - p1.timestamp) and the result's timestamp is the target;
\* for target = p1.timestamp the values are p1's; when the two timestamps are
\* equal the result is p1 itself.
C6_LinearInterpolation ==
    (ExactDone /\ Hits(LoadedPoints, arg.target_time))
    => LET t == arg.target_time
           i == Min(Brackets(LoadedPoints, t))
           p1 == LoadedPoints[i]
           p2 == LoadedPoints[i + 1]
           t1 == Val(p1.timestamp)
           t2 == Val(p2.timestamp)
           r == Val(ret)
       IN  /\ IsSome(ret)
           /\ t1 < t2 =>
                /\ IsLerp(r.latitude, p1.latitude, p2.latitude, t, t1, t2)
                /\ IsLerp(r.longitude, p1.longitude, p2.longitude, t, t1, t2)
                /\ IsLerp(r.elevation, p1.elevation, p2.elevation, t, t1, t2)
                /\ IsLerp(r.speed, p1.speed, p2.speed, t, t1, t2)
                /\ r.timestamp = Some(t)
           /\ (t1 < t2 /\ t = t1) =>
                /\ r.latitude = p1.latitude
                /\ r.longitude = p1.longitude
                /\ r.elevation = p1.elevation
                /\ r.speed = p1.speed
           /\ t1 = t2 => r = p1

\* a target half way between two points one hour apart: every field of the
\* result is the mean of the two points' fields
C6_Witness ==
    /\ ExactDone
    /\ Hits(LoadedPoints, arg.target_time)
    /\ LET i == Min(Brackets(LoadedPoints, arg.target_time))
           p1 == LoadedPoints[i]
           p2 == LoadedPoints[i + 1]
       IN  /\ Val(p2.timestamp) - Val(p1.timestamp) = 3600
           /\ arg.target_time - Val(p1.timestamp) = 1800
           /\ IsSome(ret)
           /\ 2 * Val(ret).latitude.num
                = Val(ret).latitude.den * (p1.latitude.num + p2.latitude.num)
           /\ Val(ret).latitude # p1.latitude
           /\ Val(ret).timestamp = Some(arg.target_time)

\* C7: when neither the exact search nor any shifted search hits,
\* get_position_at_time returns the timestamped point with the least
\* |timestamp - target| (the earliest in sequence order on ties) if and only
\* if that least difference is at most tolerance_hours * 3600 seconds, and
\* None otherwise; the difference is taken to the unshifted target.
C7_NearestWithinTolerance ==
    (/\ PositionDone
     /\ HasTrack(fit_parser)
     /\ ShiftHits(LoadedPoints, arg.target_time) = {})
    => LET points == LoadedPoints
           t == arg.target_time
           stamped == {i \in 1..Len(points) : IsSome(points[i].timestamp)}
           diff(i) == Abs(Val(points[i].timestamp) - t)
       IN  IF stamped = {} THEN IsNone(ret)
           ELSE LET least == Min({diff(i) : i \in stamped})
                    nearest == Min({i \in stamped : diff(i) = least})
                IN  IF least <= arg.tolerance_hours * 3600
                    THEN ret = Some(points[nearest])
                    ELSE IsNone(ret)

\* no search hits, two timestamped points are equally near and exactly
\* tolerance_hours away from the target: the earlier one is returned
C7_Witness ==
    /\ PositionDone
    /\ HasTrack(fit_parser)
    /\ ShiftHits(LoadedPoints, arg.target_time) = {}
    /\ \E i, j \in 1..Len(LoadedPoints) :
          /\ i < j
          /\ IsSome(LoadedPoints[i].timestamp)
          /\ IsSome(LoadedPoints[j].timestamp)
          /\ Abs(Val(LoadedPoints[i].timestamp) - arg.target_time) = arg.tolerance_hours * 3600
          /\ Abs(Val(LoadedPoints[j].timestamp) - arg.target_time) = arg.tolerance_hours * 3600
          /\ ret = Some(LoadedPoints[i])

----------------------------------------------------------------------------
(* Properties of _smart_correct_timestamp *)

\* the clock offsets of the claims, in seconds, in the order they are given
ClaimedOffsets == <<0, -3600, 3600, -7200, 7200>>

\* the offsets that bring creation time c inside the loaded track
OffsetsInTrack(c) ==
    {k \in 1..5 :
        IsTimeInTrack(Val(fit_parser).track, Instant(c) + ClaimedOffsets[k], 300)}

\* the timezone-reinterpreted creation time: its wall-clock fields read in
\* the local zone, converted to UTC
Reinterpreted(c) == UtcDateTime(c.wall - UtcOffset(local_timezone))

\* the call went past the track-bounded search
FallbackReached ==
    /\ CorrectDone
    /\ IsSome(arg.creation_time)
    /\ HasTrack(fit_parser) => OffsetsInTrack(Val(arg.creation_time)) = {}

\* what the fallback returns when a difference to the mtime of at most
\* MtimeWindowSeconds (strictly less when `strict`) is accepted
FallbackValue(c, mtime, strict) ==
    IF /\ IsSome(mtime)
       /\ KnownZone(local_timezone)
       /\ Abs(Val(mtime) - Instant(Reinterpreted(c))) < Abs(Val(mtime) - Instant(c))
       /\ IF strict THEN Abs(Val(mtime) - Instant(Reinterpreted(c))) < 7200
                    ELSE Abs(Val(mtime) - Instant(Reinterpreted(c))) <= 7200
    THEN Some(Reinterpreted(c))
    ELSE Some(c)

\* C8: with a track loaded, _smart_correct_timestamp returns creation_time + D
\* for the first D of 0, -3600, +3600, -7200, +7200 for which
\* is_time_in_track(creation_time + D) holds; the file's mtime is then not
\* read and the result depends on neither the mtime nor local_timezone.
C8_FirstOffsetInTrack ==
    (/\ CorrectDone
     /\ HasTrack(fit_parser)
     /\ IsSome(arg.creation_time)
     /\ OffsetsInTrack(Val(arg.creation_time)) # {})
    => LET first == Min(OffsetsInTrack(Val(arg.creation_time)))
       IN  /\ ret = Some(PlusSeconds(Val(arg.creation_time), ClaimedOffsets[first]))
           /\ "mtime_utc" \notin calls

\* the creation time is outside the track, both -3600 and -7200 bring it
\* inside, -3600 is taken, and the mtime fallback would have changed the value
C8_Witness ==
    /\ CorrectDone
    /\ HasTrack(fit_parser)
    /\ IsSome(arg.creation_time)
    /\ OffsetsInTrack(Val(arg.creation_time)) = {2, 4}
    /\ ret = Some(PlusSeconds(Val(arg.creation_time), -3600))
    /\ FallbackValue(Val(arg.creation_time), arg.mtime, TRUE) # arg.creation_time

\* C9 (as claimed): when a track is loaded and none of the five offsets
\* brings the creation time inside it, the mtime fallback is not attempted
\* and the creation time is returned unchanged.
C9_NoFallbackWithTrack ==
    (/\ FallbackReached
     /\ HasTrack(fit_parser))
    => /\ "mtime_utc" \notin calls
       /\ ret = arg.creation_time

\* C9 (amended): when a track is loaded and none of the five offsets brings
\* the creation time inside it, the mtime fallback is attempted as it is
\* without a track: the mtime is read and the result is the
\* timezone-reinterpreted value when that value is accepted, the creation
\* time unchanged otherwise.
C9_FallbackAfterTrackMiss ==
    (/\ FallbackReached
     /\ HasTrack(fit_parser))
    => /\ "mtime_utc" \in calls
       /\ "is_time_in_track" \in calls
       /\ ret = FallbackValue(Val(arg.creation_time), arg.mtime, TRUE)

\* a track is loaded, no offset lands, and the value returned is the
\* timezone-reinterpreted one, not the creation time
C9_Witness ==
    /\ FallbackReached
    /\ HasTrack(fit_parser)
    /\ IsSome(Val(Val(fit_parser).track).start_time)
    /\ ret = Some(Reinterpreted(Val(arg.creation_time)))
    /\ ret # arg.creation_time

\* C10 (as claimed): in the fallback the reinterpreted value is returned
\* exactly when it is strictly closer to the mtime than the original and at
\* most 7200 seconds from the mtime; otherwise, also when reading the mtime
\* fails, the original is returned.
C10_AcceptWithin7200 ==
    FallbackReached
    => ret = FallbackValue(Val(arg.creation_time), arg.mtime, FALSE)

\* C10 (amended): in the fallback the reinterpreted value is returned exactly
\* when it is strictly closer to the mtime than the original and strictly
\* less than 7200 seconds from the mtime; otherwise, also when reading the
\* mtime or resolving the zone fails, the original is returned.
C10_AcceptBelow7200 ==
    FallbackReached
    => /\ "mtime_utc" \in calls
       /\ ret = FallbackValue(Val(arg.creation_time), arg.mtime, TRUE)

\* no parser is loaded, the mtime is readable, and the reinterpreted value,
\* one hour from the creation time, is the one returned
C10_Witness ==
    /\ FallbackReached
    /\ IsNone(fit_parser)
    /\ IsSome(arg.mtime)
    /\ ret = Some(Reinterpreted(Val(arg.creation_time)))
    /\ Instant(Val(ret)) = Instant(Val(arg.creation_time)) - 3600

----------------------------------------------------------------------------
(* Properties of a batch run *)

\* execute has returned or raised
ExecuteEnded == op = "execute" /\ pc = "done"

\* _locate_one raises on the video at this path
LocateRaises(video_path) ==
    LocateOne(Val(run).request, fit_parser, local_timezone,
              VideoAt(video_folder, video_path)).value.kind = "raise"

\* C11: a failure while locating one video does not abort the batch: execute
\* returns one VideoLocation per listed video, UNKNOWN for the failing ones.
C11_FailureIsolated ==
    ExecuteEnded =>
       /\ ret.kind = "SyncResult"
       /\ Len(ret.video_locations) = Len(Val(run).video_paths)
       /\ \A i \in 1..Len(Val(run).video_paths) :
             LocateRaises(Val(run).video_paths[i]) => ret.video_locations[i].source = "UNKNOWN"

\* process_videos has returned or raised
ProcessVideosEnded == op = "process_videos" /\ pc = "done"

\* the raw creation time with the manual offset added once
WithManualOffset(raw_creation_time, manual_offset_seconds) ==
    IF IsSome(raw_creation_time) /\ manual_offset_seconds # 0
    THEN Some(PlusSeconds(Val(raw_creation_time), manual_offset_seconds))
    ELSE raw_creation_time

\* C12: process_videos builds a request that carries manual_offset_seconds,
\* and every video's creation time is the clock correction of its raw
\* creation time plus the offset, the offset being added once.
C12_ManualOffsetOnce ==
    ProcessVideosEnded =>
       /\ ret.kind \in {"list", "SyncResult"}
       /\ ret.kind = "SyncResult" =>
             \A i \in 1..Len(ret.video_locations) :
                LET video == VideoAt(video_folder, Val(run).video_paths[i])
                IN  ret.video_locations[i].creation_time =
                       SmartCorrectTimestamp(
                           fit_parser, local_timezone,
                           WithManualOffset(video.creation_time, arg.manual_offset_seconds),
                           video.mtime, 0).value

\* the points of the track whose timestamp lies in [start, start + duration]
TrackSegment(track, start, duration_seconds) ==
    LET Within(p) == /\ IsSome(p.timestamp)
                     /\ start <= Val(p.timestamp)
                     /\ Val(p.timestamp) <= start + duration_seconds
    IN  SelectSeq(Val(track).points, Within)

\* C13: _locate_one finds the track_points field and the get_track_segment
\* operation it uses; an EMBEDDED_GPS result carries all the extracted points
\* and a FIT_SYNC result the points of the track within
\* [creation_time, creation_time + duration] (duration 0 when unknown).
C13_TrackPointsCarried ==
    LocateDone =>
       /\ ret.kind = "raise" => ret.exc \notin {"TypeError", "AttributeError"} \/ ret.line \notin {86, 100}
       /\ (ret.kind = "VideoLocation" /\ ret.source = "EMBEDDED_GPS") =>
             ret.track_points = Some(arg.video.gpmf_points)
       /\ (ret.kind = "VideoLocation" /\ ret.source = "FIT_SYNC") =>
             ret.track_points =
                Some(TrackSegment(Val(fit_parser).track,
                                  Instant(EnsureUtc(Val(ret.creation_time), local_timezone)),
                                  IF IsSome(ret.duration_seconds) THEN Val(ret.duration_seconds) ELSE 0))

----------------------------------------------------------------------------
(* Properties of FitParser.is_time_in_track *)

InTrackDone == pc = "done" /\ op = "is_time_in_track"

\* C14: is_time_in_track(t, tolerance) is true exactly when the track has
\* both bounds and start_time - tolerance <= t <= end_time + tolerance, both
\* ends included; it is false without a track or without one of the bounds.
C14_InTrackIffWithinBounds ==
    InTrackDone =>
       LET bounded == /\ HasTrack(fit_parser)
                      /\ IsSome(LoadedPoints[1].timestamp)
                      /\ IsSome(LoadedPoints[Len(LoadedPoints)].timestamp)
       IN  ret = (/\ bounded
                  /\ Val(LoadedPoints[1].timestamp) - arg.tolerance_seconds <= arg.time_to_check
                  /\ arg.time_to_check
                        <= Val(LoadedPoints[Len(LoadedPoints)].timestamp) + arg.tolerance_seconds)

\* a time exactly tolerance seconds before the start of the track is in it
C14_Witness ==
    /\ InTrackDone
    /\ ret = TRUE
    /\ arg.tolerance_seconds > 0
    /\ arg.time_to_check = Val(LoadedPoints[1].timestamp) - arg.tolerance_seconds

----------------------------------------------------------------------------
(* Properties of the order of a batch *)

\* the names of the folder that end in one of the extensions
MatchingNames ==
    IF IsNone(video_folder) THEN {}
    ELSE {Val(video_folder)[i].name : i \in 1..Len(Val(video_folder))}
            \cap VideoFileNames

\* C15: execute returns exactly one VideoLocation per listed path, the i-th
\* result being for the i-th path, and the listed paths are the matching
\* files of the folder in ascending lexicographic order.
C15_OneResultPerListedVideo ==
    ExecuteEnded =>
       LET video_paths == Val(run).video_paths
       IN  /\ {video_paths[i] : i \in 1..Len(video_paths)} = MatchingNames
           /\ \A i \in 1..(Len(video_paths) - 1) : StrLess(video_paths[i], video_paths[i + 1])
           /\ ret.kind = "SyncResult"
           /\ Len(ret.video_locations) = Len(video_paths)
           /\ \A i \in 1..Len(video_paths) : ret.video_locations[i].video_path = video_paths[i]

\* the events of a complete run over these paths
ExpectedEvents(video_paths) ==
    LET total == Len(video_paths)
    IN  <<ProgressEvent("list_videos", 0, 0, None)>>
        \o [i \in 1..total |-> ProgressEvent("process_video", i, total, Some(video_paths[i]))]
        \o <<ProgressEvent("done", total, total, None)>>

\* C16: with a reporter, a run emits LIST_VIDEOS, then PROCESS_VIDEO with
\* current = 1, 2, ..., total (the event of video i after video i-1 is
\* located and before video i is), then one DONE, which is the last event.
C16_EventOrder ==
    /\ (op = "execute" /\ pc = "running" /\ arg.reporter) =>
          /\ Len(events) = Len(Val(run).results) + (IF Val(run).line = 56 THEN 2 ELSE 1)
          /\ events = SubSeq(ExpectedEvents(Val(run).video_paths), 1, Len(events))
    /\ (ExecuteEnded /\ arg.reporter) => events = ExpectedEvents(Val(run).video_paths)

\* C17: a batch that is cancelled stops at a video boundary, the head of
\* the loop, where the request is checked: never inside a video.
C17_CancelledAtBoundary ==
    pc = "terminated" => Val(run).line = 44

----------------------------------------------------------------------------
(* Properties of the metadata adapter *)

\* the call that memoized what the hit at position j returned
MemoizedAt(j) ==
    CHOOSE m \in 1..(j - 1) :
       /\ lookups[m].op = lookups[j].op
       /\ lookups[m].video_path = lookups[j].video_path
       /\ lookups[m].adapter = lookups[j].adapter
       /\ ~lookups[m].hit

\* C18: once set_camera_type was called with a value different from the
\* previous one, no lookup returns a value memoized before that call.
C18_NoStaleAfterChange ==
    \A j \in 1..Len(lookups) :
       (lookups[j].op \in AdapterKeys /\ lookups[j].hit) =>
          ~\E c \in (MemoizedAt(j) + 1)..(j - 1) :
              /\ lookups[c].op = "set_camera_type"
              /\ lookups[c].previous # lookups[c].camera_type

----------------------------------------------------------------------------
(* GpmfParser.parse and malformed items *)

ParseEnded == pc = "done" /\ op = "parse"

\* what the items of a stream yield when each is processed at its own header,
\* an item whose processing raises yielding nothing and leaving the parser's
\* fields alone
RECURSIVE ItemwisePoints(_, _)
ItemwisePoints(items, parser) ==
    IF items = << >> THEN << >>
    ELSE LET item == Head(items)
             h == HeaderAt(item, 0)
             raw_content == IF h.type_byte # 0
                            THEN Some(Slice(item, HEADER_SIZE, Len(item)))
                            ELSE None
             k == ProcessKlv(parser, h.fourcc, h.type_byte, h.size, h.repeat, raw_content)
         IN  IF k.raised THEN ItemwisePoints(Tail(items), parser)
             ELSE k.points \o ItemwisePoints(Tail(items), k.parser)

\* C19: parse never aborts on a malformed item: the offset advances by 8 plus
\* the padded payload, by 8 for a container and by 8 when processing raises,
\* and the points of the items before and after a malformed item are all in
\* the output, in encounter order.
C19_PointsAroundMalformed ==
    ParseEnded => ret = ItemwisePoints(arg.items, NewGpmfParser)

----------------------------------------------------------------------------
(* GPS5 groups and the fix and precision carried from GPSF and GPSP *)

Parsing == pc \in {"parsing", "done"} /\ op = "parse"

\* the header and the payload the j-th iteration of the loop has read
StepHeader(frame, j) == HeaderAt(frame.raw_data, frame.steps[j].offset)
StepPayload(frame, j) ==
    LET h == StepHeader(frame, j)
        n == h.size * h.repeat
        start == frame.steps[j].offset + 8
    IN  IF h.type_byte = 0 THEN << >>
        ELSE Slice(frame.raw_data, start, start + ((n + 3) \div 4) * 4)

\* the value most recently decoded from an item `fourcc` by the first j
\* iterations; `initial` when none was
RECURSIVE LastDecoded(_, _, _, _)
LastDecoded(frame, fourcc, j, initial) ==
    IF j = 0 THEN initial
    ELSE IF /\ StepHeader(frame, j).fourcc = fourcc
            /\ ~frame.steps[j].raised
            /\ StepPayload(frame, j) # << >>
         THEN Val(UnpackFrom(MapType(StepHeader(frame, j).type_byte), 1,
                             StepPayload(frame, j)))[1]
         ELSE LastDecoded(frame, fourcc, j - 1, initial)

IsGps5(frame, j) == StepHeader(frame, j).fourcc = <<71, 80, 83, 53>>
LastFix(frame, j) == LastDecoded(frame, <<71, 80, 83, 70>>, j - 1, 0)
LastDop(frame, j) == LastDecoded(frame, <<71, 80, 83, 80>>, j - 1, 0)

\* C20: a GPS5 item yields points only if the GPSF value most recently
\* decoded in the stream is non-zero and the GPSP value most recently decoded
\* is at most 2000, and no point of a group has (lat, lon) = (0, 0).
C20_Gps5GatedByFixAndDop ==
    Parsing =>
       \A j \in 1..Len(Val(gpmf).steps) :
          IsGps5(Val(gpmf), j) =>
             LET yield == Val(gpmf).steps[j].points
             IN  /\ yield # << >> =>
                       /\ LastFix(Val(gpmf), j) # 0
                       /\ LastDop(Val(gpmf), j) <= 2000
                 /\ \A i \in 1..Len(yield) :
                       ~(yield[i].latitude.num = 0 /\ yield[i].longitude.num = 0)

\* a group after GPSF = 0 has yielded nothing, and a later group, after a
\* non-zero GPSF, has yielded fewer points than it has samples
C20_Witness ==
    /\ ParseEnded
    /\ \E j, k \in 1..Len(Val(gpmf).steps) :
          /\ j < k
          /\ IsGps5(Val(gpmf), j)
          /\ IsGps5(Val(gpmf), k)
          /\ \E i \in 1..(j - 1) : StepHeader(Val(gpmf), i).fourcc = <<71, 80, 83, 70>>
          /\ LastFix(Val(gpmf), j) = 0
          /\ Val(gpmf).steps[j].points = << >>
          /\ LastFix(Val(gpmf), k) # 0
          /\ Val(gpmf).steps[k].points # << >>
          /\ 20 * Len(Val(gpmf).steps[k].points)
                < StepHeader(Val(gpmf), k).size * StepHeader(Val(gpmf), k).repeat

----------------------------------------------------------------------------
(* GPS9 groups: each record carries its own fix and precision *)

IsGps9(frame, j) == StepHeader(frame, j).fourcc = <<71, 80, 83, 57>>

\* the r-th 32-byte record of the group read by the j-th iteration
Gps9Record(frame, j, r) == Slice(StepPayload(frame, j), 32 * r, 32 * (r + 1))

\* a signed 32-bit value written at bytes i..i+3
Signed32(bytes, i) ==
    (IF bytes[i] >= 128 THEN bytes[i] - 256 ELSE bytes[i]) * 16777216
      + bytes[i + 1] * 65536 + bytes[i + 2] * 256 + bytes[i + 3]

\* the record is complete, its own fix is non-zero, its own dop at most 2000,
\* and its scaled coordinates are those of a valid point
Gps9Kept(frame, j, r) ==
    LET record == Gps9Record(frame, j, r)
        scale == frame.steps[j].parser.scale
    IN  /\ Len(record) = 32
        /\ 256 * record[31] + record[32] # 0
        /\ 256 * record[29] + record[30] <= 2000
        /\ is_valid(GPSPoint(Degrees(Scaled(Signed32(record, 1), scale[1])),
                             Degrees(Scaled(Signed32(record, 5), scale[2])),
                             Rat(0, 1), None, Rat(0, 1)))

CarriedFixes == {0, 2, 3}
CarriedDops == {0, 2000, 2001}

\* C21: the points of a GPS9 item are those of the records whose own fix is
\* non-zero, whose own dop is at most 2000 and whose scaled coordinates are
\* valid, and two parser states that differ only in the GPSF and GPSP values
\* they carry yield the same points for the same item.
C21_Gps9OwnFixAndDop ==
    Parsing =>
       \A j \in 1..Len(Val(gpmf).steps) :
          IsGps9(Val(gpmf), j) =>
             LET step == Val(gpmf).steps[j]
                 repeat == StepHeader(Val(gpmf), j).repeat
                 kept == {r \in 0..(repeat - 1) : Gps9Kept(Val(gpmf), j, r)}
             IN  /\ Len(step.points) = Cardinality(kept)
                 /\ \A fix \in CarriedFixes, dop \in CarriedDops :
                       ParseGps9([step.parser EXCEPT !.gps_fix = fix,
                                                     !.gps_precision = dop],
                                 repeat, Some(StepPayload(Val(gpmf), j)))
                         = step.points

\* the same group read twice, without and with a carried fix, has yielded
\* the same points both times, one record of the two being dropped
C21_Witness ==
    /\ ParseEnded
    /\ \E j, k \in 1..Len(Val(gpmf).steps) :
          /\ IsGps9(Val(gpmf), j)
          /\ IsGps9(Val(gpmf), k)
          /\ StepPayload(Val(gpmf), j) = StepPayload(Val(gpmf), k)
          /\ Val(gpmf).steps[j].parser.gps_fix = 0
          /\ Val(gpmf).steps[k].parser.gps_fix # 0
          /\ Val(gpmf).steps[j].points = Val(gpmf).steps[k].points
          /\ Len(Val(gpmf).steps[j].points) = 1
          /\ StepHeader(Val(gpmf), j).repeat = 2

----------------------------------------------------------------------------
(* SCAL: the divisors carried to the GPS5 and GPS9 groups that follow *)

IsScal(frame, j) ==
    /\ StepHeader(frame, j).fourcc = <<83, 67, 65, 76>>
    /\ StepHeader(frame, j).type_byte = 108
    /\ ~frame.steps[j].raised
    /\ StepPayload(frame, j) # << >>

\* the nine divisors a SCAL item of signed 32-bit values declares
DeclaredScale(frame, j) ==
    LET k == StepHeader(frame, j).repeat
        payload == StepPayload(frame, j)
    IN  [i \in 1..9 |-> IF k = 1 THEN Signed32(payload, 1)
                        ELSE IF i <= k THEN Signed32(payload, 4 * i - 3)
                        ELSE 1]

\* the divisors declared by the last SCAL item among the first j iterations
RECURSIVE LastScale(_, _)
LastScale(frame, j) ==
    IF j = 0 THEN [i \in 1..9 |-> 1]
    ELSE IF IsScal(frame, j) THEN DeclaredScale(frame, j)
    ELSE LastScale(frame, j - 1)

\* the parser's fields after the j-th iteration
ParserAfter(frame, j) ==
    IF j < Len(frame.steps) THEN frame.steps[j + 1].parser ELSE frame.parser

\* the samples of a group: 20-byte samples for GPS5, 32-byte records for GPS9
SampleSize(frame, j) == IF IsGps9(frame, j) THEN 32 ELSE 5 * StepHeader(frame, j).size
SampleAt(frame, j, r) ==
    Slice(StepPayload(frame, j), r * SampleSize(frame, j), (r + 1) * SampleSize(frame, j))

\* the point is sample r with each raw field divided by its own divisor
DividedBy(point, sample, scale) ==
    /\ Len(sample) >= 20
    /\ point.latitude = Degrees(Rat(Signed32(sample, 1), scale[1]))
    /\ point.longitude = Degrees(Rat(Signed32(sample, 5), scale[2]))
    /\ point.elevation = Rat(Signed32(sample, 9), scale[3])
    /\ point.speed = Rat(Signed32(sample, 13), scale[4])

\* C22: a SCAL item of one value sets all nine divisors to it, one of k > 1
\* values sets divisor i to the i-th value and the divisors from k on to 1;
\* every later GPS5 or GPS9 item, until the next SCAL, has each raw field
\* divided by its own divisor.
C22_ScaleCarried ==
    Parsing =>
       \A j \in 1..Len(Val(gpmf).steps) :
          /\ IsScal(Val(gpmf), j) =>
                SubSeq(ParserAfter(Val(gpmf), j).scale, 1, 9) = DeclaredScale(Val(gpmf), j)
          /\ IsGps5(Val(gpmf), j) \/ IsGps9(Val(gpmf), j) =>
                \A i \in 1..Len(Val(gpmf).steps[j].points) :
                   \E r \in 0..(StepHeader(Val(gpmf), j).repeat - 1) :
                      DividedBy(Val(gpmf).steps[j].points[i], SampleAt(Val(gpmf), j, r),
                                LastScale(Val(gpmf), j - 1))

\* a group has yielded a point under a SCAL of one value, and a later group
\* a point under a following SCAL of two values
C22_Witness ==
    /\ ParseEnded
    /\ \E i, j, k, l \in 1..Len(Val(gpmf).steps) :
          /\ i < j /\ j < k /\ k < l
          /\ IsScal(Val(gpmf), i) /\ StepHeader(Val(gpmf), i).repeat = 1
          /\ LastScale(Val(gpmf), j - 1) = [n \in 1..9 |-> 100]
          /\ Val(gpmf).steps[j].points # << >>
          /\ IsScal(Val(gpmf), k) /\ StepHeader(Val(gpmf), k).repeat = 2
          /\ LastScale(Val(gpmf), l - 1) = <<10, 20, 1, 1, 1, 1, 1, 1, 1>>
          /\ Val(gpmf).steps[l].points # << >>

----------------------------------------------------------------------------
(* FitParser.parse: failures *)

LoadDone == pc = "done" /\ op = "load_fit_file"

\* what the file makes of parse, in the words of the specification
FailureKind(file) ==
    IF ~file.installed THEN "LibraryUnavailable"
    ELSE IF ~file.exists THEN "NotFound"
    ELSE IF file.decodable /\ FitParse(file) = None THEN "EmptyTrack"
    ELSE "none"

FailingFiles ==
    {FitFile(FALSE, TRUE, TRUE, << >>), FitFile(TRUE, FALSE, TRUE, << >>),
     FitFile(TRUE, TRUE, TRUE, << >>)}

\* C23: parse reports a path that does not exist as NotFound and a missing
\* decoder library as LibraryUnavailable, two outcomes the caller can tell
\* apart from each other and from the empty-track outcome.
C23_FailuresToldApart ==
    LoadDone =>
       \A other \in FailingFiles :
          FailureKind(other) # FailureKind(arg) =>
             FitParse(other) # Val(fit_parser).track

----------------------------------------------------------------------------
(* FitParser.parse: the track *)

\* the record has both coordinates, not both zero, within 90 and 180 degrees
\* (64 and 128 units of 2^24 semicircles)
RecordKept(record) ==
    /\ record.position_lat # << >>
    /\ record.position_long # << >>
    /\ record.position_lat[1] # 0 \/ record.position_long[1] # 0
    /\ record.position_lat[1] \in -64..64
    /\ record.position_long[1] \in -128..128

KeptRecords == SelectSeq(arg.records, RecordKept)

ParsedFile == LoadDone /\ arg.installed /\ arg.exists /\ arg.decodable

\* C24: a Track returned by parse is not empty, holds in encounter order
\* exactly the records with both coordinates whose converted coordinates are
\* valid, and starts and ends at the timestamps of its first and last point;
\* with no such record parse returns None.
C24_TrackOfValidRecords ==
    ParsedFile =>
       LET track == Val(fit_parser).track
       IN  /\ KeptRecords = << >> => track = None
           /\ track # None =>
                 LET points == Val(track).points
                 IN  /\ points # << >>
                     /\ Len(points) = Len(KeptRecords)
                     /\ \A i \in 1..Len(points) :
                           /\ points[i].timestamp = KeptRecords[i].timestamp
                           /\ 32 * points[i].latitude.num
                                 = 4500 * KeptRecords[i].position_lat[1] * points[i].latitude.den
                           /\ 32 * points[i].longitude.num
                                 = 4500 * KeptRecords[i].position_long[1] * points[i].longitude.den
                     /\ Val(track).start_time = points[1].timestamp
                     /\ Val(track).end_time = points[Len(points)].timestamp

\* three records, the second dropped, the first later than the third: the
\* track keeps the file's order and starts after it ends
C24_Witness ==
    /\ ParsedFile
    /\ Len(arg.records) = 3
    /\ ~RecordKept(arg.records[2])
    /\ Val(fit_parser).track # None
    /\ Len(Val(Val(fit_parser).track).points) = 2
    /\ Val(Val(fit_parser).track).start_time = <<Hour>>
    /\ Val(Val(fit_parser).track).end_time = <<0>>

----------------------------------------------------------------------------
(* The round trip of the user's edits through a project file *)

\* the values a project file holds for a video
EditsIn(metadata, path) ==
    [custom_name |-> JsonLoad(metadata[path].custom_name),
     custom_note |-> JsonLoad(metadata[path].custom_note),
     marker_color |-> JsonLoad(metadata[path].marker_color)[1],
     marker_icon |-> JsonLoad(metadata[path].marker_icon)[1]]

\* the controller holds a VideoLocation of the video with these values
Carries(video_locations, path, edits) ==
    \E k \in 1..Len(video_locations) :
       /\ video_locations[k].video_path = path
       /\ video_locations[k].custom_name = edits.custom_name
       /\ video_locations[k].custom_note = edits.custom_note
       /\ video_locations[k].marker_color = edits.marker_color
       /\ video_locations[k].marker_icon = edits.marker_icon

\* C25: the custom_name, custom_note, marker_color and marker_icon saved for a
\* video, loaded by _load_project and re-applied at the end of the following
\* synchronization run are, on the video's VideoLocation, exactly the values
\* that were saved.
C25_EditsRoundTrip ==
    IsSome(window.applied) =>
       \A path \in DOMAIN Val(window.applied) :
          Carries(window.video_locations, path, EditsIn(Val(window.applied), path))

----------------------------------------------------------------------------
(* One worker at a time *)

Running == {i \in 1..Len(window.threads) : window.threads[i] = "running"}

\* C30: at most one ProcessingWorker runs against the window's controller at
\* any time: no worker is started while an earlier one has not yet emitted
\* finished_processing.
C30_SingleWorker == Cardinality(Running) <= 1

----------------------------------------------------------------------------
(* C26: GpmfParser.parse terminates on every byte string: every iteration   *)
(* of its loop moves the offset forward by at least the 8 bytes of a        *)
(* header, after an exception as on the normal path, and an iteration is    *)
(* entered only while a full header is left, so the iterations number at    *)
(* most len(raw_data)/8 + 1.                                                *)

\* the offset at which iteration i ended: where the next one began, or the
\* offset of the frame for the last one
OffsetAfter(frame, i) ==
    IF i < Len(frame.steps) THEN frame.steps[i + 1].offset ELSE frame.offset

C26_ParseTerminates ==
    Parsing =>
        LET frame == Val(gpmf)
        IN  /\ \A i \in 1..Len(frame.steps) :
                  /\ frame.steps[i].offset + HEADER_SIZE <= Len(frame.raw_data)
                  /\ OffsetAfter(frame, i) >= frame.steps[i].offset + HEADER_SIZE
            /\ frame.offset >= HEADER_SIZE * Len(frame.steps)
            /\ Len(frame.steps) <= Len(frame.raw_data) \div HEADER_SIZE + 1
            /\ (pc = "done" => ~HeaderLeft(frame))

\* a parse that ended on less than a header, after an iteration that raised
\* and one that did not
C26_Witness ==
    /\ Parsing /\ pc = "done"
    /\ Val(gpmf).offset < Len(Val(gpmf).raw_data)
    /\ \E i, j \in 1..Len(Val(gpmf).steps) :
          Val(gpmf).steps[i].raised /\ ~Val(gpmf).steps[j].raised

----------------------------------------------------------------------------
(* C27: a point returned by FitParser.get_position_at_time with the default *)
(* tolerance of 2 hours carries a timestamp, and that timestamp differs     *)
(* from the requested target by at most 7200 seconds, whether the exact     *)
(* tier, a shifted target or the nearest point produced it.                 *)

DefaultToleranceHours == 2

PositionReturned ==
    /\ pc = "done" /\ op = "get_position_at_time"
    /\ arg.tolerance_hours = DefaultToleranceHours
    /\ IsSome(ret)

\* seconds between the returned point and the target asked for
ReturnedDistance == Abs(Val(Val(ret).timestamp) - arg.target_time)

C27_ReturnedWithinTwoHours ==
    PositionReturned =>
        /\ IsSome(Val(ret).timestamp)
        /\ ReturnedDistance <= DefaultToleranceHours * Hour

\* the nearest point, exactly 7200 s from the target, after the exact tier
\* and every shifted target failed
C27_Witness ==
    /\ PositionReturned
    /\ IsSome(Val(ret).timestamp)
    /\ ReturnedDistance = DefaultToleranceHours * Hour
    /\ IsNone(TryOffsets(Val(Val(fit_parser).track).points, arg.target_time, 1))

----------------------------------------------------------------------------
(* C28: after a synchronization run every VideoLocation of source           *)
(* EMBEDDED_GPS or FIT_SYNC is located (a position that is_valid), every    *)
(* VideoLocation of source UNKNOWN has no position, and the summary over    *)
(* the run's locations has located_videos = embedded_gps + fit_synced and   *)
(* not_located = the number of UNKNOWN videos.                              *)

RunReturned == ExecuteEnded /\ ret.kind = "SyncResult"

\* the summary of the controller once line 132 has stored the run's locations
SummaryOfRun == GetSummary(ret.video_locations, ret.track)

----------------------------------------------------------------------------
(* C29: within one metadata adapter instance, each of the three lookups on  *)
(* a video path invokes the external probing tool at most once, also when   *)
(* the first result was None, and every later call returns the first        *)
(* result.                                                                  *)

\* the lookup at position j went through an adapter's cache (the generic
\* adapter's extract_embedded_gps answers None without cache or tool)
ThroughCache(j) ==
    /\ lookups[j].op \in AdapterKeys
    /\ ~(lookups[j].adapter = "generic" /\ lookups[j].op = "embedded_gps")

\* the earlier lookups of the same key on the same path by the same instance
EarlierSame(j) ==
    {m \in 1..(j - 1) :
        /\ lookups[m].op = lookups[j].op
        /\ lookups[m].video_path = lookups[j].video_path
        /\ lookups[m].adapter = lookups[j].adapter}

First(S) == CHOOSE m \in S : \A n \in S : m <= n

C29_ProbedOnce ==
    \A j \in 1..Len(lookups) :
       ThroughCache(j) =>
          /\ lookups[j].hit <=> EarlierSame(j) # {}
          /\ EarlierSame(j) # {} => lookups[j].value = lookups[First(EarlierSame(j))].value

\* a first result of None served again, the camera type having been set in
\* between
C29_Witness ==
    \E j \in 1..Len(lookups) :
       /\ ThroughCache(j)
       /\ lookups[j].hit
       /\ IsNone(lookups[j].value)
       /\ \E c \in (First(EarlierSame(j)) + 1)..(j - 1) : lookups[c].op = "set_camera_type"

============================================================================
